---- MODULE Spec2Model ----
(***************************************************************************)
(* A model of the astisub TypeScript port (src/src): the timeline engine   *)
(* of subtitles.ts, the duration codec of utils/duration.ts, the           *)
(* text-markup codec of utils/html.ts and the SRT and WebVTT codecs of      *)
(* formats/.                                                               *)
(*                                                                         *)
(* Optional fields (item.style, item.region, lineItem.style, ...) are      *)
(* sequences of length 0 (undefined) or 1 (the referenced object).         *)
(* Style and Region objects are never mutated by the operations, so a     *)
(* reference is modelled by the value of the object it points to.          *)
(***************************************************************************)
EXTENDS Integers, Sequences, FiniteSets, TLC

VARIABLES
  subs,   \* the Subtitles instance the timeline operations mutate in place
  other,  \* the second Subtitles instance, the argument of merge
  last,   \* the last operation applied: its name, arguments, and subs before it
  prev,   \* the value of last before the last operation
  steps,  \* number of operations applied so far
  limit,  \* number of operations the run applies at most
  data,   \* the string the codecs read from and write to
  time,   \* the Duration the duration codec formats and parses
  thrown, \* the error the last codec function threw, if any
  loop,   \* the locals of a call of fragment inside its while loop, if any
  scanner \* the Scanner instance, if one was constructed

vars == <<subs, other, last, prev, steps, limit, data, time, thrown, loop, scanner>>

(***************************************************************************)
(* Bounds of the model.                                                    *)
(***************************************************************************)
MaxTick == 3        \* one-operation runs: timestamps are 0..MaxTick seconds
MaxItems == 2       \* one-operation runs: longest initial item sequence
MaxAddTick == 5     \* add runs: timestamps are 0..MaxAddTick seconds
MaxAddItems == 2    \* add runs: longest initial item sequence
MaxFUTick == 6      \* fragment/unfragment runs: timestamps are 0..MaxFUTick seconds
MaxSeqTick == 2     \* operation-sequence runs: timestamps are 0..MaxSeqTick seconds
MaxSeqItems == 2    \* operation-sequence runs: longest initial item sequence
MaxSteps == 2       \* operation-sequence runs: longest operation sequence
MaxOrderTick == 1   \* order runs: timestamps are 0..MaxOrderTick seconds
MaxOrderItems == 3  \* order runs: longest initial item sequence
MaxSRTLines == 3    \* SRT runs: longest input text, in lines
MaxVTTLines == 3    \* WebVTT runs: longest input text after the header, in lines
MaxBlocks == 2      \* SRT block runs: most blocks of an input text
MaxBlockLines == 2  \* SRT block runs: most text lines of a block
MaxBodyLines == 3   \* malformed-cue runs: most lines after the header line

Seconds(n) == {1000 * k : k \in 0..n}

(***************************************************************************)
(* Generic sequence helpers (Array.prototype.splice / slice).              *)
(***************************************************************************)
RemoveAt(s, i) == SubSeq(s, 1, i - 1) \o SubSeq(s, i + 1, Len(s))
InsertAt(s, i, x) == SubSeq(s, 1, i - 1) \o <<x>> \o SubSeq(s, i, Len(s))
SeqsUpTo(S, n) == UNION {[1..k -> S] : k \in 0..n}
Range(s) == {s[i] : i \in 1..Len(s)}
Restrict(m, S) == [k \in S |-> m[k]]

(***************************************************************************)
(* The unified model (types).                                              *)
(***************************************************************************)
Undefined == <<>>
Ref(obj) == <<obj>>

\* StyleAttributes: the fields the codecs of the model read and write.  {}
\* is the value with every field undefined (false for the boolean ones).
StyleAttributes ==
  [srtBold |-> FALSE, srtColor |-> Undefined, srtItalics |-> FALSE,
   srtPosition |-> Undefined, srtUnderline |-> FALSE,
   ttmlColor |-> Undefined,
   webvttAlign |-> Undefined, webvttLine |-> Undefined, webvttLines |-> Undefined,
   webvttPosition |-> Undefined, webvttRegionAnchor |-> Undefined,
   webvttScroll |-> Undefined, webvttSize |-> Undefined, webvttStyles |-> Undefined,
   webvttTags |-> Undefined, webvttVertical |-> Undefined,
   webvttViewportAnchor |-> Undefined, webvttWidth |-> Undefined]
WebVTTPosition(xPosition, alignment) == [xPosition |-> xPosition, alignment |-> alignment]
WebVTTTag(name, annotation, classes) ==
  [name |-> name, annotation |-> annotation, classes |-> classes]
WebVTTTimestampMap(local, mpegTS) == [local |-> local, mpegTS |-> mpegTS]

Style(id) == [id |-> id, inlineStyle |-> Undefined]
Region(id, style) == [id |-> id, inlineStyle |-> Undefined, style |-> style]
LineItem(text, style) ==
  [text |-> text, style |-> style, inlineStyle |-> Undefined, startAt |-> Undefined]
Line(lineItems) == [items |-> lineItems, voiceName |-> ""]
Item(s, e, lines, style, region) ==
  [startAt |-> s, endAt |-> e, lines |-> lines, style |-> style,
   region |-> region, inlineStyle |-> Undefined, index |-> Undefined,
   comments |-> <<>>]
Subtitles(items, styles, regions) ==
  [items |-> items, styles |-> styles, regions |-> regions, metadata |-> Undefined]
EmptyMap == [k \in {} |-> k]

(***************************************************************************)
(* itemToString / lineToString.                                            *)
(***************************************************************************)
RECURSIVE ConcatTexts(_)
ConcatTexts(lineItems) ==
  IF lineItems = <<>> THEN ""
  ELSE Head(lineItems).text \o ConcatTexts(Tail(lineItems))

lineToString(line) == ConcatTexts(line.items)

RECURSIVE JoinLines(_)
JoinLines(lines) ==
  IF lines = <<>> THEN ""
  ELSE IF Len(lines) = 1 THEN lineToString(lines[1])
  ELSE lineToString(lines[1]) \o " - " \o JoinLines(Tail(lines))

itemToString(item) == JoinLines(item.lines)

(***************************************************************************)
(* order: Array.prototype.sort with the comparator a.startAt - b.startAt,  *)
(* a stable sort (ECMAScript 2019).                                        *)
(***************************************************************************)
RECURSIVE InsertUnstable(_, _)
InsertUnstable(sorted, x) ==
  IF sorted = <<>> THEN <<x>>
  ELSE IF Head(sorted).startAt < x.startAt
       THEN <<Head(sorted)>> \o InsertUnstable(Tail(sorted), x)
       ELSE <<x>> \o sorted

RECURSIVE InsertSorted(_, _)
InsertSorted(sorted, x) ==
  IF sorted = <<>> THEN <<x>>
  ELSE IF Head(sorted).startAt - x.startAt <= 0
       THEN <<Head(sorted)>> \o InsertSorted(Tail(sorted), x)
       ELSE <<x>> \o sorted

RECURSIVE SortByStartAt(_)
SortByStartAt(items) ==
  IF items = <<>> THEN <<>>
  ELSE InsertSorted(SortByStartAt(SubSeq(items, 1, Len(items) - 1)), items[Len(items)])

orderItems(items) == IF Len(items) <= 1 THEN items ELSE SortByStartAt(items)

order(s) == [s EXCEPT !.items = orderItems(s.items)]

(***************************************************************************)
(* add                                                                     *)
(***************************************************************************)
\* Variants of the loop of add: one that does not step back after a splice,
\* one that drops an item as soon as one of its timestamps is <= 0.
RECURSIVE addLoopNoStepBack(_, _, _)
addLoopNoStepBack(items, i, duration) ==
  IF i > Len(items) THEN items
  ELSE LET item == [items[i] EXCEPT !.endAt = @ + duration, !.startAt = @ + duration]
       IN IF item.endAt <= 0 /\ item.startAt <= 0
          THEN addLoopNoStepBack(RemoveAt(items, i), i + 1, duration)
          ELSE IF item.startAt < 0
               THEN addLoopNoStepBack([items EXCEPT ![i] = [item EXCEPT !.startAt = 0]], i + 1, duration)
               ELSE addLoopNoStepBack([items EXCEPT ![i] = item], i + 1, duration)

RECURSIVE addLoopDropEither(_, _, _)
addLoopDropEither(items, i, duration) ==
  IF i > Len(items) THEN items
  ELSE LET item == [items[i] EXCEPT !.endAt = @ + duration, !.startAt = @ + duration]
       IN IF item.endAt <= 0 \/ item.startAt <= 0
          THEN addLoopDropEither(RemoveAt(items, i), i, duration)
          ELSE addLoopDropEither([items EXCEPT ![i] = item], i + 1, duration)

RECURSIVE addLoop(_, _, _)
addLoop(items, i, duration) ==
  IF i > Len(items) THEN items
  ELSE LET item == [items[i] EXCEPT !.endAt = @ + duration, !.startAt = @ + duration]
       IN IF item.endAt <= 0 /\ item.startAt <= 0
          THEN addLoop(RemoveAt(items, i), i, duration)
          ELSE IF item.startAt < 0
               THEN addLoop([items EXCEPT ![i] = [item EXCEPT !.startAt = 0]], i + 1, duration)
               ELSE addLoop([items EXCEPT ![i] = item], i + 1, duration)

add(s, duration) == [s EXCEPT !.items = addLoop(s.items, 1, duration)]

(***************************************************************************)
(* getDuration, isEmpty, forceDuration                                     *)
(***************************************************************************)
getDuration(s) == IF Len(s.items) = 0 THEN 0 ELSE s.items[Len(s.items)].endAt

isEmpty(s) == Len(s.items) = 0

\* A variant of the dummy item that starts at the requested duration.
DummyItemAfter(duration) ==
  Item(duration, duration + 1, <<Line(<<LineItem("...", Undefined)>>)>>, Undefined, Undefined)

DummyItem(duration) ==
  Item(duration - 1, duration, <<Line(<<LineItem("...", Undefined)>>)>>, Undefined, Undefined)

\* A variant of the clipping loop that clips no endAt.
RECURSIVE forceLoopNoClip(_, _, _)
forceLoopNoClip(items, i, duration) ==
  IF i > Len(items) THEN [items |-> items, lastIndex |-> -1]
  ELSE IF items[i].startAt >= duration THEN [items |-> items, lastIndex |-> i - 1]
  ELSE forceLoopNoClip(items, i + 1, duration)

\* A variant of the clipping loop that tests the endAt of an item before its
\* startAt.
RECURSIVE forceLoopClipFirst(_, _, _)
forceLoopClipFirst(items, i, duration) ==
  IF i > Len(items) THEN [items |-> items, lastIndex |-> -1]
  ELSE IF items[i].endAt > duration
       THEN forceLoopClipFirst([items EXCEPT ![i].endAt = duration], i + 1, duration)
       ELSE IF items[i].startAt >= duration THEN [items |-> items, lastIndex |-> i - 1]
       ELSE forceLoopClipFirst(items, i + 1, duration)

\* The clipping loop: lastIndex is the 0-based index of the first item whose
\* startAt >= duration, or -1.
RECURSIVE forceLoop(_, _, _)
forceLoop(items, i, duration) ==
  IF i > Len(items) THEN [items |-> items, lastIndex |-> -1]
  ELSE IF items[i].startAt >= duration THEN [items |-> items, lastIndex |-> i - 1]
  ELSE IF items[i].endAt > duration
       THEN forceLoop([items EXCEPT ![i].endAt = duration], i + 1, duration)
       ELSE forceLoop(items, i + 1, duration)

forceDuration(s, duration, addDummyItem) ==
  LET currentDuration == getDuration(s) IN
  IF currentDuration = duration THEN s
  ELSE LET r == IF currentDuration > duration
                THEN forceLoop(s.items, 1, duration)
                ELSE [items |-> s.items, lastIndex |-> -1]
           kept == IF r.lastIndex # -1 THEN SubSeq(r.items, 1, r.lastIndex) ELSE r.items
           s1 == [s EXCEPT !.items = kept]
       IN IF addDummyItem /\ getDuration(s1) < duration
          THEN [s1 EXCEPT !.items = Append(kept, DummyItem(duration))]
          ELSE s1

(***************************************************************************)
(* fragment                                                                *)
(***************************************************************************)
\* A variant of the pass that moves the start of a spanning item to the
\* boundary without inserting the item that covers the other side.
RECURSIVE fragmentPassNoInsert(_, _, _, _)
fragmentPassNoInsert(items, i, fragmentStart, fragmentEnd) ==
  IF i > Len(items) THEN items
  ELSE LET item == items[i] IN
       IF item.startAt < fragmentStart /\ item.endAt > fragmentStart
       THEN fragmentPassNoInsert([items EXCEPT ![i].startAt = fragmentStart],
                                 i + 1, fragmentStart, fragmentEnd)
       ELSE IF item.startAt < fragmentEnd /\ item.endAt > fragmentEnd
       THEN fragmentPassNoInsert([items EXCEPT ![i].startAt = fragmentEnd],
                                 i + 1, fragmentStart, fragmentEnd)
       ELSE fragmentPassNoInsert(items, i + 1, fragmentStart, fragmentEnd)

\* One pass of the for loop over the items for the window
\* [fragmentStart, fragmentEnd].
RECURSIVE fragmentPass(_, _, _, _)
fragmentPass(items, i, fragmentStart, fragmentEnd) ==
  IF i > Len(items) THEN items
  ELSE LET item == items[i] IN
       IF item.startAt < fragmentStart /\ item.endAt > fragmentStart
       THEN fragmentPass(
              InsertAt([items EXCEPT ![i].startAt = fragmentStart], i,
                       [item EXCEPT !.endAt = fragmentStart]),
              i + 2, fragmentStart, fragmentEnd)
       ELSE IF item.startAt < fragmentEnd /\ item.endAt > fragmentEnd
       THEN fragmentPass(
              InsertAt([items EXCEPT ![i].startAt = fragmentEnd], i,
                       [item EXCEPT !.endAt = fragmentEnd]),
              i + 2, fragmentStart, fragmentEnd)
       ELSE fragmentPass(items, i + 1, fragmentStart, fragmentEnd)

\* The while loop; lastItemEnd is read once before it.
RECURSIVE fragmentWhile(_, _, _, _, _)
fragmentWhile(items, fragmentStart, fragmentEnd, fragmentDuration, lastItemEnd) ==
  IF fragmentStart < lastItemEnd
  THEN fragmentWhile(fragmentPass(items, 1, fragmentStart, fragmentEnd),
                     fragmentStart + fragmentDuration,
                     fragmentEnd + fragmentDuration,
                     fragmentDuration, lastItemEnd)
  ELSE items

fragment(s, fragmentDuration) ==
  IF Len(s.items) = 0 THEN s
  ELSE [s EXCEPT !.items =
          orderItems(fragmentWhile(s.items, 0, fragmentDuration, fragmentDuration,
                                   s.items[Len(s.items)].endAt))]

(***************************************************************************)
(* unfragment                                                              *)
(***************************************************************************)
\* A variant of the inner loop that merges overlapping items only, not
\* touching ones.
RECURSIVE unfragmentInnerStrict(_, _, _)
unfragmentInnerStrict(items, i, j) ==
  IF j > Len(items) THEN items
  ELSE LET currentItem == items[i]
           nextItem == items[j]
       IN IF itemToString(currentItem) = itemToString(nextItem)
             /\ currentItem.endAt > nextItem.startAt
          THEN LET extended == IF currentItem.endAt < nextItem.endAt
                               THEN [items EXCEPT ![i].endAt = nextItem.endAt]
                               ELSE items
               IN unfragmentInnerStrict(RemoveAt(extended, j), i, j)
          ELSE IF currentItem.endAt < nextItem.startAt THEN items
          ELSE unfragmentInnerStrict(items, i, j + 1)

\* A variant of the inner loop that removes the next item without extending
\* the current one.
RECURSIVE unfragmentInnerNoExtend(_, _, _)
unfragmentInnerNoExtend(items, i, j) ==
  IF j > Len(items) THEN items
  ELSE LET currentItem == items[i]
           nextItem == items[j]
       IN IF itemToString(currentItem) = itemToString(nextItem)
             /\ currentItem.endAt >= nextItem.startAt
          THEN unfragmentInnerNoExtend(RemoveAt(items, j), i, j)
          ELSE IF currentItem.endAt < nextItem.startAt THEN items
          ELSE unfragmentInnerNoExtend(items, i, j + 1)

RECURSIVE unfragmentInner(_, _, _)
unfragmentInner(items, i, j) ==
  IF j > Len(items) THEN items
  ELSE LET currentItem == items[i]
           nextItem == items[j]
       IN IF itemToString(currentItem) = itemToString(nextItem)
             /\ currentItem.endAt >= nextItem.startAt
          THEN LET extended == IF currentItem.endAt < nextItem.endAt
                               THEN [items EXCEPT ![i].endAt = nextItem.endAt]
                               ELSE items
               IN unfragmentInner(RemoveAt(extended, j), i, j)
          ELSE IF currentItem.endAt < nextItem.startAt THEN items
          ELSE unfragmentInner(items, i, j + 1)

RECURSIVE unfragmentOuter(_, _)
unfragmentOuter(items, i) ==
  IF i >= Len(items) THEN items
  ELSE unfragmentOuter(unfragmentInner(items, i, i + 1), i + 1)

unfragment(s) ==
  IF Len(s.items) <= 1 THEN s
  ELSE [s EXCEPT !.items = unfragmentOuter(orderItems(s.items), 1)]

(***************************************************************************)
(* merge                                                                   *)
(***************************************************************************)
\* A variant of the two loops of merge in which the other entry wins.
MergeMapOverwrite(mine, theirs) ==
  [id \in DOMAIN mine \cup DOMAIN theirs |->
     IF id \in DOMAIN theirs THEN theirs[id] ELSE mine[id]]

MergeMap(mine, theirs) ==
  [id \in DOMAIN mine \cup DOMAIN theirs |->
     IF id \in DOMAIN mine THEN mine[id] ELSE theirs[id]]

merge(s, o) ==
  [s EXCEPT !.items = orderItems(s.items \o o.items),
            !.regions = MergeMap(s.regions, o.regions),
            !.styles = MergeMap(s.styles, o.styles)]

(***************************************************************************)
(* optimize / removeUnusedRegionsAndStyles                                 *)
(***************************************************************************)
ItemRegionIds(items) ==
  {items[i].region[1].id : i \in {k \in 1..Len(items) : items[k].region # Undefined}}

ItemStyleIds(items) ==
  {items[i].style[1].id : i \in {k \in 1..Len(items) : items[k].style # Undefined}}

LineItemsOf(items) ==
  UNION {UNION {Range(items[i].lines[l].items) : l \in 1..Len(items[i].lines)}
           : i \in 1..Len(items)}

LineItemStyleIds(items) ==
  {li.style[1].id : li \in {x \in LineItemsOf(items) : x.style # Undefined}}

RegionStyleIds(regions, ids) ==
  {regions[id].style[1].id : id \in {k \in ids : regions[k].style # Undefined}}

\* A variant of removeUnusedRegionsAndStyles that forgets the styles of the
\* retained regions.
removeUnusedForgetRegionStyles(s) ==
  LET usedRegions == ItemRegionIds(s.items)
      usedStyles == ItemStyleIds(s.items) \cup LineItemStyleIds(s.items)
  IN [s EXCEPT !.regions = Restrict(s.regions, DOMAIN s.regions \cap usedRegions),
               !.styles = Restrict(s.styles, DOMAIN s.styles \cap usedStyles)]

removeUnusedRegionsAndStyles(s) ==
  LET usedRegions == ItemRegionIds(s.items)
      keptRegions == DOMAIN s.regions \cap usedRegions
      usedStyles == ItemStyleIds(s.items) \cup LineItemStyleIds(s.items)
                      \cup RegionStyleIds(s.regions, keptRegions)
  IN [s EXCEPT !.regions = Restrict(s.regions, keptRegions),
               !.styles = Restrict(s.styles, DOMAIN s.styles \cap usedStyles)]

\* A variant of optimize that prunes the regions only.
optimizeRegionsOnly(s) ==
  IF Len(s.items) = 0 THEN s
  ELSE [s EXCEPT !.regions = Restrict(s.regions, DOMAIN s.regions \cap ItemRegionIds(s.items))]

optimize(s) == IF Len(s.items) = 0 THEN s ELSE removeUnusedRegionsAndStyles(s)

(***************************************************************************)
(* removeStyling                                                           *)
(***************************************************************************)
ClearLine(line) ==
  [line EXCEPT !.items =
     [k \in 1..Len(line.items) |->
        [line.items[k] EXCEPT !.inlineStyle = Undefined, !.style = Undefined]]]

ClearItem(item) ==
  [item EXCEPT !.region = Undefined, !.style = Undefined, !.inlineStyle = Undefined,
               !.lines = [l \in 1..Len(item.lines) |-> ClearLine(item.lines[l])]]

removeStyling(s) ==
  [s EXCEPT !.items = [i \in 1..Len(s.items) |-> ClearItem(s.items[i])],
            !.regions = EmptyMap,
            !.styles = EmptyMap]

(***************************************************************************)
(* The two-point affine map in exact arithmetic:                           *)
(* floor(a * t + b) = desired1 + floor((desired2 - desired1) * (t -        *)
(* actual1) / (actual2 - actual1)) for actual1 # actual2.                  *)
(***************************************************************************)
FloorDiv(n, d) == IF d > 0 THEN n \div d ELSE (0 - n) \div (0 - d)

LinearMap(t, actual1, desired1, actual2, desired2) ==
  desired1 + FloorDiv((desired2 - desired1) * (t - actual1), actual2 - actual1)

(***************************************************************************)
(* JavaScript strings.  A string is a TLA+ string, a character a string of *)
(* length 1, positions are 1-based.  U+FEFF and U+00A0 cannot be written   *)
(* in a TLA+ string: BOM and NBSP stand for them (no text of the model     *)
(* holds a form feed or a tab).                                            *)
(***************************************************************************)
BOM == "\f"
NBSP == "\t"
WhiteSpace == {" ", "\n", "\r", BOM, NBSP}
Digits == "0123456789"
LowerCase == "abcdefghijklmnopqrstuvwxyz"
UpperCase == "ABCDEFGHIJKLMNOPQRSTUVWXYZ"

\* const name = v; F(name): a local variable of the source.
With(v, F(_)) == F(v)

Max(S) == CHOOSE x \in S : \A y \in S : x >= y

\* The characters i..j of s, the positions outside s left out.
Sub(s, i, j) ==
  IF (IF i < 1 THEN 1 ELSE i) > (IF j > Len(s) THEN Len(s) ELSE j) THEN ""
  ELSE SubSeq(s, IF i < 1 THEN 1 ELSE i, IF j > Len(s) THEN Len(s) ELSE j)

Char(s, i) == Sub(s, i, i)
From(s, i) == Sub(s, i, Len(s))
DigitChars == {"0", "1", "2", "3", "4", "5", "6", "7", "8", "9"}
LowerChars == {Char(LowerCase, i) : i \in 1..26}
UpperChars == {Char(UpperCase, i) : i \in 1..26}
Letters == LowerChars \cup UpperChars
DigitValue(c) == (CHOOSE i \in 1..10 : Char(Digits, i) = c) - 1

toLowerCaseChar(c) ==
  IF c \in UpperChars
  THEN Char(LowerCase, CHOOSE i \in 1..26 : Char(UpperCase, i) = c)
  ELSE c

RECURSIVE toLowerCase(_)
toLowerCase(s) ==
  IF s = "" THEN "" ELSE toLowerCaseChar(Head(s)) \o toLowerCase(Tail(s))

\* Length of the longest run of characters of chars in s from position i.
RECURSIVE RunLength(_, _, _)
RunLength(s, i, chars) ==
  IF i <= Len(s) /\ Char(s, i) \in chars THEN 1 + RunLength(s, i + 1, chars) ELSE 0

\* The same for the characters outside chars.
RECURSIVE RunLengthNot(_, _, _)
RunLengthNot(s, i, chars) ==
  IF i <= Len(s) /\ Char(s, i) \notin chars THEN 1 + RunLengthNot(s, i + 1, chars) ELSE 0

trimStart(s) == From(s, 1 + RunLength(s, 1, WhiteSpace))

RECURSIVE trimEnd(_)
trimEnd(s) ==
  IF s # "" /\ Char(s, Len(s)) \in WhiteSpace THEN trimEnd(Sub(s, 1, Len(s) - 1)) ELSE s

trim(s) == trimEnd(trimStart(s))

startsWith(s, prefix) == Sub(s, 1, Len(prefix)) = prefix
endsWith(s, suffix) ==
  Len(suffix) <= Len(s) /\ Sub(s, Len(s) - Len(suffix) + 1, Len(s)) = suffix
StartsAt(s, i, pat) == Sub(s, i, i + Len(pat) - 1) = pat

\* The first position >= from where a character of chars is in s, or 0.
RECURSIVE indexOfChar(_, _, _)
indexOfChar(s, chars, from) ==
  IF from > Len(s) THEN 0
  ELSE IF Char(s, from) \in chars THEN from
  ELSE indexOfChar(s, chars, from + 1)

\* The first position >= from where pat occurs in s, or 0.
RECURSIVE indexOf(_, _, _)
indexOf(s, pat, from) ==
  IF from + Len(pat) - 1 > Len(s) THEN 0
  ELSE IF StartsAt(s, from, pat) THEN from
  ELSE indexOf(s, pat, from + 1)

includes(s, pat) == indexOf(s, pat, 1) # 0

\* String.prototype.split with a non-empty string separator.
RECURSIVE split(_, _)
split(s, sep) ==
  With(indexOf(s, sep, 1), LAMBDA i :
    IF i = 0 THEN <<s>>
    ELSE <<Sub(s, 1, i - 1)>> \o split(From(s, i + Len(sep)), sep))

\* String.prototype.split(/\s+/).
RECURSIVE splitWhiteSpace(_)
splitWhiteSpace(s) ==
  With(RunLengthNot(s, 1, WhiteSpace), LAMBDA n :
    With(RunLength(s, n + 1, WhiteSpace), LAMBDA w :
      IF w = 0 THEN <<s>>
      ELSE <<Sub(s, 1, n)>> \o splitWhiteSpace(From(s, n + w + 1))))

RECURSIVE join(_, _)
join(strings, sep) ==
  IF strings = <<>> THEN ""
  ELSE IF Len(strings) = 1 THEN strings[1]
  ELSE strings[1] \o sep \o join(Tail(strings), sep)

\* Number.prototype.toString of an integer.
RECURSIVE toString(_)
toString(n) ==
  IF n < 0 THEN "-" \o toString(-n)
  ELSE IF n < 10 THEN Char(Digits, n + 1)
  ELSE toString(n \div 10) \o Char(Digits, (n % 10) + 1)

RECURSIVE padStart(_, _, _)
padStart(s, n, fill) == IF Len(s) >= n THEN s ELSE padStart(fill \o s, n, fill)

\* parseInt(s, 10): <<n>>, or NaN when s has no leading integer.
NaN == <<>>
RECURSIVE DecimalValue(_, _)
DecimalValue(s, acc) ==
  IF s = "" THEN acc ELSE DecimalValue(Tail(s), 10 * acc + DigitValue(Head(s)))

parseIntBody(body, negative) ==
  With(RunLength(body, 1, DigitChars), LAMBDA n :
    IF n = 0 THEN NaN
    ELSE IF negative THEN <<-DecimalValue(Sub(body, 1, n), 0)>>
    ELSE <<DecimalValue(Sub(body, 1, n), 0)>>)

parseInt(s) ==
  With(trimStart(s), LAMBDA t :
    IF t # "" /\ Head(t) \in {"+", "-"} THEN parseIntBody(Tail(t), Head(t) = "-")
    ELSE parseIntBody(t, FALSE))

\* The remainder operator of JavaScript: the sign of the dividend.
Remainder(a, b) == IF a >= 0 THEN a % b ELSE -((-a) % b)

RECURSIVE Pow10(_)
Pow10(k) == IF k = 0 THEN 1 ELSE 10 * Pow10(k - 1)

(***************************************************************************)
(* utils/scanner.ts                                                        *)
(***************************************************************************)
\* text.split(/\r\n|\r|\n/)
RECURSIVE SplitNewlines(_)
SplitNewlines(s) ==
  With(indexOfChar(s, {"\r", "\n"}, 1), LAMBDA i :
    IF i = 0 THEN <<s>>
    ELSE <<Sub(s, 1, i - 1)>>
           \o SplitNewlines(From(s, IF StartsAt(s, i, "\r\n") THEN i + 2 ELSE i + 1)))

splitLines(s) ==
  With(SplitNewlines(s), LAMBDA lines :
    IF Len(lines) > 0 /\ lines[Len(lines)] = ""
    THEN SubSeq(lines, 1, Len(lines) - 1)
    ELSE lines)

(***************************************************************************)
(* utils/helpers.ts                                                        *)
(***************************************************************************)
hasBOM(s) == s # "" /\ Head(s) = BOM
removeBOM(s) == IF hasBOM(s) THEN Tail(s) ELSE s

(***************************************************************************)
(* utils/html.ts                                                           *)
(***************************************************************************)
HTML_ESCAPE_MAP == ("&" :> "&amp;") @@ ("<" :> "&lt;") @@ (NBSP :> "&nbsp;")
HTML_UNESCAPE_MAP ==
  ("&amp;" :> "&") @@ ("&lt;" :> "<") @@ ("&nbsp;" :> NBSP) @@ ("&gt;" :> ">")
    @@ ("&quot;" :> "\"") @@ ("&#39;" :> "'") @@ ("&#x27;" :> "'")

RECURSIVE escapeHTML(_)
escapeHTML(s) ==
  IF s = "" THEN ""
  ELSE (IF Head(s) \in DOMAIN HTML_ESCAPE_MAP THEN HTML_ESCAPE_MAP[Head(s)] ELSE Head(s))
         \o escapeHTML(Tail(s))

\* The entities of HTML_UNESCAPE_MAP that s starts with (none or one).
EntitiesAt(s) ==
  IF s = "" \/ Head(s) # "&" THEN {}
  ELSE {e \in DOMAIN HTML_UNESCAPE_MAP : StartsAt(s, 1, e)}

RECURSIVE unescapeHTML(_)
unescapeHTML(s) ==
  IF s = "" THEN ""
  ELSE With(EntitiesAt(s), LAMBDA found :
         IF found = {} THEN Head(s) \o unescapeHTML(Tail(s))
         ELSE With(CHOOSE e \in found : TRUE, LAMBDA entity :
                HTML_UNESCAPE_MAP[entity] \o unescapeHTML(From(s, Len(entity) + 1))))

(***************************************************************************)
(* utils/duration.ts.  A function that throws returns Throw(message).      *)
(***************************************************************************)
\* throw new name(message); Throw is throw new Error(message).
ThrowNamed(name, message) == [thrown |-> TRUE, name |-> name, message |-> message]
Throw(message) == ThrowNamed("Error", message)
\* The error object a throwing call leaves with its caller.
ErrorOf(r) == [name |-> r.name, message |-> r.message]
InvalidExtensionError == ThrowNamed("InvalidExtensionError", "Invalid file extension")
NoSubtitlesToWriteError == ThrowNamed("NoSubtitlesToWriteError", "No subtitles to write")
Return(value) == [thrown |-> FALSE, value |-> value]

\* milliseconds * Math.pow(10, k).  For k < 0 the product is not an
\* integer; no text of the model has more millisecond digits than
\* numberOfMillisecondDigits.
ScaleMilliseconds(milliseconds, k) == CASE k >= 0 -> milliseconds * Pow10(k)

\* The rest of parseDuration once the millisecond part is split off:
\* milliseconds is what the last segment gave (0 without a separator).
parseTimeString(timeString, milliseconds) ==
  With(split(trim(timeString), ":"), LAMBDA timeParts :
    With([i \in 1..Len(timeParts) |-> parseInt(trim(timeParts[i]))], LAMBDA fields :
      IF Len(timeParts) \notin {2, 3, 4}
      THEN Throw("No hours, minutes or seconds detected")
      ELSE With(IF Len(timeParts) = 2 THEN <<0>> ELSE fields[1], LAMBDA hours :
           With(IF Len(timeParts) = 2 THEN fields[1] ELSE fields[2], LAMBDA minutes :
           With(IF Len(timeParts) = 2 THEN fields[2] ELSE fields[3], LAMBDA seconds :
             IF hours = NaN \/ minutes = NaN \/ seconds = NaN
             THEN Throw("Failed to parse time components")
             \* a NaN fourth field makes the result NaN; no text of the
             \* model has one
             ELSE Return((IF Len(timeParts) = 4 THEN fields[4][1] ELSE milliseconds)
                           + seconds[1] * 1000 + minutes[1] * 60 * 1000
                           + hours[1] * 60 * 60 * 1000))))))

parseDuration(input, millisecondSep, numberOfMillisecondDigits) ==
  With(split(input, millisecondSep), LAMBDA parts :
    IF Len(parts) >= 2
    THEN With(trim(parts[Len(parts)]), LAMBDA msStr :
           IF Len(msStr) > 3 THEN Throw("Invalid number of millisecond digits")
           ELSE IF parseInt(msStr) = NaN THEN Throw("Failed to parse milliseconds")
           ELSE parseTimeString(
                  join(SubSeq(parts, 1, Len(parts) - 1), millisecondSep),
                  ScaleMilliseconds(parseInt(msStr)[1],
                                    numberOfMillisecondDigits - Len(msStr))))
    ELSE parseTimeString(input, 0))

formatDuration(duration, millisecondSep, numberOfMillisecondDigits) ==
  LET hours == duration \div (60 * 60 * 1000)
      remaining1 == Remainder(duration, 60 * 60 * 1000)
      minutes == remaining1 \div (60 * 1000)
      remaining2 == Remainder(duration, 60 * 1000)
      seconds == remaining2 \div 1000
      remaining3 == Remainder(duration, 1000)
      ms == remaining3 \div Pow10(3 - numberOfMillisecondDigits)
  IN padStart(toString(hours), 2, "0") \o ":" \o padStart(toString(minutes), 2, "0")
       \o ":" \o padStart(toString(seconds), 2, "0") \o millisecondSep
       \o padStart(toString(ms), numberOfMillisecondDigits, "0")

(***************************************************************************)
(* formats/srt.ts                                                          *)
(***************************************************************************)
SRT_TIME_BOUNDARIES_SEPARATOR == "-->"

RECURSIVE parseSRTDurationFrom(_, _)
parseSRTDurationFrom(input, separators) ==
  IF separators = <<>> THEN Throw("Failed to parse SRT duration")
  ELSE With(parseDuration(input, Head(separators), 3), LAMBDA r :
         IF r.thrown THEN parseSRTDurationFrom(input, Tail(separators)) ELSE r)

parseSRTDuration(input) == parseSRTDurationFrom(input, <<",", ".", ":">>)

formatSRTDuration(duration) == formatDuration(duration, ",", 3)

\* What follows the tag name of /<\/?([a-z]+)(?:\s+([^>]+))?>/i: r is the
\* position after the name, g the position of the first ">" from r on.
\* The result is the attributes and the position after the match.
SRTTagTail(s, r, g) ==
  IF g = r THEN Ref([attributes |-> Undefined, lastIndex |-> r + 1])
  ELSE IF Char(s, r) \in WhiteSpace /\ g >= r + 2
  THEN With(r + RunLength(s, r, WhiteSpace), LAMBDA a :
         Ref([attributes |-> Ref(IF a < g THEN Sub(s, a, g - 1) ELSE Char(s, g - 1)),
              lastIndex |-> g + 1]))
  ELSE Undefined

\* The match of the tag regex at position p of s, or Undefined.
SRTTagAt(s, p) ==
  IF Char(s, p) # "<" THEN Undefined
  ELSE With(IF Char(s, p + 1) = "/" THEN p + 2 ELSE p + 1, LAMBDA q :
       With(q + RunLength(s, q, Letters), LAMBDA r :
         IF r = q THEN Undefined
         ELSE With(SRTTagTail(s, r, indexOf(s, ">", r)), LAMBDA tail :
                IF tail = Undefined THEN Undefined
                ELSE Ref([index |-> p, lastIndex |-> tail[1].lastIndex,
                          isClosing |-> q = p + 2,
                          tagName |-> toLowerCase(Sub(s, q, r - 1)),
                          attributes |-> tail[1].attributes]))))

\* tagRegex.exec(input) when the search starts at position from.
RECURSIVE SRTTagExec(_, _)
SRTTagExec(s, from) ==
  With(indexOf(s, "<", from), LAMBDA p :
    IF p = 0 THEN Undefined
    ELSE With(SRTTagAt(s, p), LAMBDA match :
           IF match # Undefined THEN match ELSE SRTTagExec(s, p + 1)))

\* /color\s*=\s*["']([^"']+)["']/i at position p of s: the colour, or Undefined.
SRTColorAt(s, p) ==
  IF toLowerCase(Sub(s, p, p + 4)) # "color" THEN Undefined
  ELSE With(p + 5 + RunLength(s, p + 5, WhiteSpace), LAMBDA a :
       With(a + 1 + RunLength(s, a + 1, WhiteSpace), LAMBDA b :
       With(RunLengthNot(s, b + 1, {"\"", "'"}), LAMBDA m :
         IF /\ Char(s, a) = "="
            /\ Char(s, b) \in {"\"", "'"}
            /\ m >= 1
            /\ Char(s, b + 1 + m) \in {"\"", "'"}
         THEN Ref(Sub(s, b + 1, b + m))
         ELSE Undefined)))

\* attributes.match(...): the leftmost match.
RECURSIVE SRTColorMatch(_, _)
SRTColorMatch(s, p) ==
  IF p > Len(s) THEN Undefined
  ELSE With(SRTColorAt(s, p), LAMBDA color :
         IF color # Undefined THEN color ELSE SRTColorMatch(s, p + 1))

SRTFontStyle(currentStyle, attributes) ==
  IF attributes = Undefined THEN currentStyle
  ELSE With(SRTColorMatch(attributes[1], 1), LAMBDA colorMatch :
         IF colorMatch = Undefined THEN currentStyle
         ELSE [currentStyle EXCEPT !.srtColor = colorMatch])

SRTStyleAfter(currentStyle, tag) ==
  IF tag.isClosing
  THEN CASE tag.tagName = "b" -> [currentStyle EXCEPT !.srtBold = FALSE]
         [] tag.tagName = "i" -> [currentStyle EXCEPT !.srtItalics = FALSE]
         [] tag.tagName = "u" -> [currentStyle EXCEPT !.srtUnderline = FALSE]
         [] tag.tagName = "font" -> [currentStyle EXCEPT !.srtColor = Undefined]
         [] OTHER -> currentStyle
  ELSE CASE tag.tagName = "b" -> [currentStyle EXCEPT !.srtBold = TRUE]
         [] tag.tagName = "i" -> [currentStyle EXCEPT !.srtItalics = TRUE]
         [] tag.tagName = "u" -> [currentStyle EXCEPT !.srtUnderline = TRUE]
         [] tag.tagName = "font" -> SRTFontStyle(currentStyle, tag.attributes)
         [] OTHER -> currentStyle

\* The line items a stretch of text between two tags adds.
SRTTextItems(text, currentStyle) ==
  IF text = "" \/ trim(text) = "" THEN <<>>
  ELSE <<[LineItem(unescapeHTML(text), Undefined) EXCEPT !.inlineStyle =
            IF \/ currentStyle.srtBold \/ currentStyle.srtItalics
               \/ currentStyle.srtUnderline \/ currentStyle.srtColor # Undefined
            THEN Ref(currentStyle) ELSE Undefined]>>

RECURSIVE parseSRTTextLoop(_, _, _, _)
parseSRTTextLoop(input, lastIndex, currentStyle, items) ==
  With(SRTTagExec(input, lastIndex), LAMBDA match :
    IF match = Undefined
    THEN items \o SRTTextItems(From(input, lastIndex), currentStyle)
    ELSE parseSRTTextLoop(input, match[1].lastIndex,
           SRTStyleAfter(currentStyle, match[1]),
           items \o SRTTextItems(Sub(input, lastIndex, match[1].index - 1), currentStyle)))

parseSRTText(input, styleAttrs) ==
  IF trim(input) = "" THEN Line(<<LineItem("", Undefined)>>)
  ELSE Line(parseSRTTextLoop(input, 1, styleAttrs, <<>>))

\* Remove trailing empty lines.
RECURSIVE PopEmptyLines(_)
PopEmptyLines(lines) ==
  IF lines # <<>> /\ \A i \in 1..Len(lines[Len(lines)].items) :
                       lines[Len(lines)].items[i].text = ""
  THEN PopEmptyLines(SubSeq(lines, 1, Len(lines) - 1))
  ELSE lines

\* A variant of SaveItem that saves an item only when it starts after 0.
SaveItemStarted(items, currentItem, lines) ==
  IF currentItem.startAt > 0
  THEN Append(items, [currentItem EXCEPT !.lines = lines])
  ELSE items

\* Save the item if it has content.
SaveItem(items, currentItem, lines) ==
  IF lines # <<>> \/ currentItem.startAt > 0
  THEN Append(items, [currentItem EXCEPT !.lines = lines])
  ELSE items

\* A variant of SRTBoundaries that gives the opened item no index.
SRTBoundariesNoIndex(line, index, lineNum) ==
  With(split(line, SRT_TIME_BOUNDARIES_SEPARATOR), LAMBDA parts :
    With(parseSRTDuration(trim(parts[1])), LAMBDA startAt :
      IF startAt.thrown
      THEN Throw("Line " \o toString(lineNum) \o ": failed to parse start time")
      ELSE With(parseSRTDuration(splitWhiteSpace(trim(parts[2]))[1]), LAMBDA endAt :
             IF endAt.thrown
             THEN Throw("Line " \o toString(lineNum) \o ": failed to parse end time")
             ELSE Return(Item(startAt.value, endAt.value, <<>>, Undefined, Undefined)))))

\* A line with time boundaries: the item it opens, or the error thrown
\* (its message up to the text of the timestamp and of the cause).
SRTBoundaries(line, index, lineNum) ==
  With(split(line, SRT_TIME_BOUNDARIES_SEPARATOR), LAMBDA parts :
    With(parseSRTDuration(trim(parts[1])), LAMBDA startAt :
      IF startAt.thrown
      THEN Throw("Line " \o toString(lineNum) \o ": failed to parse start time")
      ELSE With(parseSRTDuration(splitWhiteSpace(trim(parts[2]))[1]), LAMBDA endAt :
             IF endAt.thrown
             THEN Throw("Line " \o toString(lineNum) \o ": failed to parse end time")
             ELSE Return([Item(startAt.value, endAt.value, <<>>, Undefined, Undefined)
                            EXCEPT !.index = IF index = "" THEN Undefined
                                             ELSE parseInt(index)]))))

RECURSIVE readSRTLoop(_, _, _, _)
readSRTLoop(lines, k, items, currentItem) ==
  IF k > Len(lines)
  THEN Return(Subtitles(
         IF currentItem.lines # <<>> \/ currentItem.startAt > 0
         THEN Append(items, [currentItem EXCEPT !.lines = PopEmptyLines(@)])
         ELSE items,
         EmptyMap, EmptyMap))
  ELSE With(trim(lines[k]), LAMBDA line :
         IF includes(line, SRT_TIME_BOUNDARIES_SEPARATOR)
         THEN With(IF currentItem.lines # <<>>
                   THEN lineToString(currentItem.lines[Len(currentItem.lines)])
                   ELSE "", LAMBDA index :
              With(SRTBoundaries(line, index, k), LAMBDA opened :
                IF opened.thrown THEN opened
                ELSE readSRTLoop(lines, k + 1,
                       SaveItem(items, currentItem,
                         PopEmptyLines(
                           IF index # ""
                           THEN SubSeq(currentItem.lines, 1, Len(currentItem.lines) - 1)
                           ELSE currentItem.lines)),
                       opened.value)))
         ELSE With(parseSRTText(line, StyleAttributes), LAMBDA parsedLine :
                readSRTLoop(lines, k + 1, items,
                  IF parsedLine.items # <<>>
                  THEN [currentItem EXCEPT !.lines = Append(@, parsedLine)]
                  ELSE currentItem)))

readFromSRT(content) ==
  readSRTLoop(splitLines(removeBOM(content)), 1, <<>>,
              Item(0, 0, <<>>, Undefined, Undefined))

lineItemToSRTString(item) ==
  LET has == item.inlineStyle # Undefined
      color == IF has THEN item.inlineStyle[1].srtColor ELSE Undefined
      bold == has /\ item.inlineStyle[1].srtBold
      italic == has /\ item.inlineStyle[1].srtItalics
      underline == has /\ item.inlineStyle[1].srtUnderline
      position == IF has THEN item.inlineStyle[1].srtPosition ELSE Undefined
  IN (IF color # Undefined THEN "<font color=\"" \o color[1] \o "\">" ELSE "")
       \o (IF bold THEN "<b>" ELSE "")
       \o (IF italic THEN "<i>" ELSE "")
       \o (IF underline THEN "<u>" ELSE "")
       \o (IF position # Undefined THEN "{\\an" \o toString(position[1]) \o "}" ELSE "")
       \o escapeHTML(item.text)
       \o (IF underline THEN "</u>" ELSE "")
       \o (IF italic THEN "</i>" ELSE "")
       \o (IF bold THEN "</b>" ELSE "")
       \o (IF color # Undefined THEN "</font>" ELSE "")

\* strings.join('') of the strings F(1), ..., F(n).
RECURSIVE ConcatMap(_, _, _)
ConcatMap(F(_), i, n) == IF i > n THEN "" ELSE F(i) \o ConcatMap(F, i + 1, n)

lineToSRTString(line) ==
  ConcatMap(LAMBDA i : lineItemToSRTString(line.items[i]), 1, Len(line.items)) \o "\n"

itemToSRTString(item, i) ==
  toString(i) \o "\n"
    \o formatSRTDuration(item.startAt) \o " " \o SRT_TIME_BOUNDARIES_SEPARATOR \o " "
    \o formatSRTDuration(item.endAt) \o "\n"
    \o ConcatMap(LAMBDA l : lineToSRTString(item.lines[l]), 1, Len(item.lines))
    \o "\n"

writeToSRT(subtitles) ==
  IF Len(subtitles.items) = 0 THEN Throw("No subtitles to write")
  ELSE Return(trimEnd(BOM \o ConcatMap(LAMBDA i : itemToSRTString(subtitles.items[i], i),
                                       1, Len(subtitles.items)))
                \o "\n")

(***************************************************************************)
(* formats/webvtt.ts                                                       *)
(***************************************************************************)
WEBVTT_TIME_BOUNDARIES_SEPARATOR == "-->"
WEBVTT_BLOCK_COMMENT == "comment"
WEBVTT_BLOCK_STYLE == "style"
WEBVTT_BLOCK_TEXT == "text"
WEBVTT_DEFAULT_STYLE_ID == "astisub-webvtt-default-style-id"
WEBVTT_TIMESTAMP_MAP_HEADER == "X-TIMESTAMP-MAP"

parseWebVTTDuration(input) == parseDuration(input, ".", 3)

formatWebVTTDuration(duration) == formatDuration(duration, ".", 3)

parseWebVTTPosition(s) ==
  IF s = "" THEN Undefined
  ELSE With(split(s, ","), LAMBDA parts :
         IF Len(parts) = 1 THEN Ref(WebVTTPosition(trim(s), ""))
         ELSE Ref(WebVTTPosition(trim(parts[1]), trim(parts[2]))))

formatWebVTTPosition(pos) ==
  IF pos = Undefined THEN ""
  ELSE IF pos[1].alignment # "" THEN pos[1].xPosition \o "," \o pos[1].alignment
  ELSE pos[1].xPosition

\* const [key, value] = part.split(sep): the second element is Undefined
\* when the split gives one part only.
KeyValue(part, sep) ==
  With(split(part, sep), LAMBDA parts :
    [key |-> parts[1], value |-> IF Len(parts) >= 2 THEN Ref(parts[2]) ELSE Undefined])

\* !key || !value
Falsy(pair) == pair.key = "" \/ pair.value = Undefined \/ pair.value[1] = ""

\* One part of the X-TIMESTAMP-MAP value applied to the map read so far.
TimestampMapPart(map, pair) ==
  With(trim(toLowerCase(pair.key)), LAMBDA key :
    IF key = "local"
    THEN With(parseWebVTTDuration(pair.value[1]), LAMBDA local :
           IF local.thrown THEN local ELSE Return([map EXCEPT !.local = local.value]))
    ELSE IF key = "mpegts"
    THEN With(parseInt(pair.value[1]), LAMBDA mpegTS :
           IF mpegTS = NaN THEN Throw("Failed to parse MPEGTS value")
           ELSE Return([map EXCEPT !.mpegTS = mpegTS[1]]))
    ELSE Return(map))

RECURSIVE TimestampMapParts(_, _, _)
TimestampMapParts(map, parts, i) ==
  IF i > Len(parts) THEN Return(map)
  ELSE With(KeyValue(parts[i], ":"), LAMBDA pair :
         IF Falsy(pair) THEN Throw("Invalid X-TIMESTAMP-MAP part")
         ELSE With(TimestampMapPart(map, pair), LAMBDA r :
                IF r.thrown THEN r ELSE TimestampMapParts(r.value, parts, i + 1)))

parseWebVTTTimestampMap(line) ==
  With(split(line, "="), LAMBDA splits :
    IF Len(splits) <= 1 THEN Throw("Invalid X-TIMESTAMP-MAP, no \"=\" found")
    ELSE TimestampMapParts(WebVTTTimestampMap(0, 0), split(splits[2], ","), 1))

formatWebVTTTimestampMap(local, mpegTS) ==
  WEBVTT_TIMESTAMP_MAP_HEADER \o "=LOCAL:" \o formatWebVTTDuration(local)
    \o ",MPEGTS:" \o toString(mpegTS)

\* The tag regex of parseWebVTTText: "<", slashes, white space, a name of
\* characters other than "." and white space, class groups ("." and
\* characters other than white space and "/"), white space, an annotation
\* of characters other than "/", white space, slashes, ">".  Its
\* quantifiers are greedy and give back one character at a time: of the
\* ways to match at a position the engine takes the one with the most
\* slashes, then the longest name, then the longest classes, then the
\* longest annotation.  The white space runs are always taken whole (what
\* follows them cannot start with white space, or fails the same way).

\* White space, slashes and ">" at position x: the position after the ">", or 0.
VTTTagEnd(s, x) ==
  With(x + RunLength(s, x, WhiteSpace), LAMBDA y :
    With(y + RunLength(s, y, {"/"}), LAMBDA z :
      IF Char(s, z) = ">" THEN z + 1 ELSE 0))

\* The positions of s where the end of a tag matches.
VTTTagEnds(s) == {x \in 1..Len(s) : VTTTagEnd(s, x) # 0}

\* The lengths of the annotation at position b that let the rest match.
VTTTagAnnotations(s, b, ends) ==
  {t \in 0..RunLengthNot(s, b, {"/"}) : b + t \in ends}

\* The lengths of the class groups at position r that let the rest match.
VTTTagClasses(s, r, ends) ==
  {l \in 0..(IF Char(s, r) = "."
             THEN 1 + RunLengthNot(s, r + 1, WhiteSpace \cup {"/"}) ELSE 0) :
     VTTTagAnnotations(s, r + l + RunLength(s, r + l, WhiteSpace), ends) # {}}

\* The lengths of the name at position q that let the rest match.
VTTTagNames(s, q, ends) ==
  {n \in 1..RunLengthNot(s, q, WhiteSpace \cup {"."}) :
     VTTTagClasses(s, q + n, ends) # {}}

\* The numbers of slashes after the "<" at position p that let the rest match.
VTTTagSlashes(s, p, ends) ==
  {a \in 0..RunLength(s, p + 1, {"/"}) :
     VTTTagNames(s, p + 1 + a + RunLength(s, p + 1 + a, WhiteSpace), ends) # {}}

\* The match the engine reports for the name at q: groups and end.
VTTTagGroups(s, p, q, ends) ==
  With(Max(VTTTagNames(s, q, ends)), LAMBDA n :
  With(Max(VTTTagClasses(s, q + n, ends)), LAMBDA l :
  With(q + n + l + RunLength(s, q + n + l, WhiteSpace), LAMBDA b :
  With(Max(VTTTagAnnotations(s, b, ends)), LAMBDA t :
    [index |-> p,
     lastIndex |-> VTTTagEnd(s, b + t),
     isClosing |-> Char(s, p + 1) = "/",
     tagName |-> Sub(s, q, q + n - 1),
     classes |-> IF l = 0 THEN Undefined ELSE Ref(Sub(s, q + n, q + n + l - 1)),
     annotation |-> Sub(s, b, b + t - 1)]))))

\* The match of the tag regex at position p of s, or Undefined.
VTTTagAt(s, p, ends) ==
  IF Char(s, p) # "<" THEN Undefined
  ELSE With(VTTTagSlashes(s, p, ends), LAMBDA slashes :
         IF slashes = {} THEN Undefined
         ELSE With(Max(slashes), LAMBDA a :
                Ref(VTTTagGroups(s, p, p + 1 + a + RunLength(s, p + 1 + a, WhiteSpace),
                                 ends))))

\* tagRegex.exec(input) when the search starts at position from.
RECURSIVE VTTTagExec(_, _, _)
VTTTagExec(s, from, ends) ==
  With(indexOf(s, "<", from), LAMBDA p :
    IF p = 0 THEN Undefined
    ELSE With(VTTTagAt(s, p, ends), LAMBDA match :
           IF match # Undefined THEN match ELSE VTTTagExec(s, p + 1, ends)))

\* The timestamp regex of parseWebVTTTextToken: "<", an optional group of
\* two or more digits and ":", then dd:dd.ddd and ">".

\* dd:dd.ddd and ">" at position p: the position after the ">", or 0.
VTTClockAt(s, p) ==
  IF /\ RunLength(s, p, DigitChars) = 2 /\ Char(s, p + 2) = ":"
     /\ RunLength(s, p + 3, DigitChars) = 2 /\ Char(s, p + 5) = "."
     /\ RunLength(s, p + 6, DigitChars) = 3 /\ Char(s, p + 9) = ">"
  THEN p + 10 ELSE 0

\* The match of the timestamp regex at position p of s, or Undefined.
VTTTimestampAt(s, p) ==
  IF Char(s, p) # "<" THEN Undefined
  ELSE With(RunLength(s, p + 1, DigitChars), LAMBDA d :
       With(IF d >= 2 /\ Char(s, p + 1 + d) = ":" /\ VTTClockAt(s, p + 2 + d) # 0
            THEN VTTClockAt(s, p + 2 + d) ELSE VTTClockAt(s, p + 1), LAMBDA e :
         IF e = 0 THEN Undefined
         ELSE Ref([index |-> p, endIndex |-> e, timestamp |-> Sub(s, p + 1, e - 2)])))

\* All the matches of the timestamp regex in s from position from on.
RECURSIVE VTTTimestampMatches(_, _)
VTTTimestampMatches(s, from) ==
  With(indexOf(s, "<", from), LAMBDA p :
    IF p = 0 THEN <<>>
    ELSE With(VTTTimestampAt(s, p), LAMBDA match :
           IF match = Undefined THEN VTTTimestampMatches(s, p + 1)
           ELSE match \o VTTTimestampMatches(s, match[1].endIndex)))

\* The line item the text after a timestamp gives.
VTTTimedItem(styleAttrs, afterText, timestamp) ==
  IF trim(afterText) = "" THEN <<>>
  ELSE With(parseWebVTTDuration(timestamp), LAMBDA startAt :
         <<[LineItem(unescapeHTML(afterText), Undefined) EXCEPT
              !.inlineStyle = styleAttrs,
              !.startAt = IF startAt.thrown THEN Undefined ELSE Ref(startAt.value)]>>)

RECURSIVE VTTTimedItems(_, _, _, _)
VTTTimedItems(styleAttrs, text, matches, i) ==
  IF i > Len(matches) THEN <<>>
  ELSE VTTTimedItem(styleAttrs,
         Sub(text, matches[i].endIndex,
             IF i + 1 <= Len(matches) THEN matches[i + 1].index - 1 ELSE Len(text)),
         matches[i].timestamp)
       \o VTTTimedItems(styleAttrs, text, matches, i + 1)

parseWebVTTTextToken(styleAttrs, text) ==
  With(VTTTimestampMatches(text, 1), LAMBDA timestampMatches :
    IF timestampMatches = <<>>
    THEN <<[LineItem(unescapeHTML(text), Undefined) EXCEPT !.inlineStyle = styleAttrs]>>
    ELSE With(Sub(text, 1, timestampMatches[1].index - 1), LAMBDA beforeText :
           (IF trim(beforeText) # ""
            THEN <<[LineItem(unescapeHTML(beforeText), Undefined)
                      EXCEPT !.inlineStyle = styleAttrs]>>
            ELSE <<>>)
           \o VTTTimedItems(styleAttrs, text, timestampMatches, 1)))

\* The line items the text between two tags adds to the line.
VTTTextItems(text, tagStack) ==
  IF text = "" THEN <<>>
  ELSE parseWebVTTTextToken(
         IF tagStack # <<>>
         THEN Ref([StyleAttributes EXCEPT !.webvttTags = Ref(tagStack)])
         ELSE Undefined,
         text)

\* classes.split('.').filter((c) => c.length > 0).map((c) => c.trim())
VTTClassList(classes) ==
  With(SelectSeq(split(classes, "."), LAMBDA c : c # ""), LAMBDA list :
    [i \in 1..Len(list) |-> trim(list[i])])

\* The tag stack after a tag.
VTTStackAfter(tagStack, tag) ==
  IF tag.isClosing
  THEN IF tagStack # <<>> THEN SubSeq(tagStack, 1, Len(tagStack) - 1) ELSE tagStack
  ELSE IF tag.tagName = "v" THEN tagStack
  ELSE Append(tagStack,
         WebVTTTag(tag.tagName, trim(tag.annotation),
                   IF tag.classes # Undefined THEN Ref(VTTClassList(tag.classes[1]))
                   ELSE Undefined))

\* The voice name of the line after a tag.
VTTVoiceAfter(voiceName, tag) ==
  IF ~tag.isClosing /\ tag.tagName = "v" /\ voiceName = "" THEN trim(tag.annotation)
  ELSE voiceName

RECURSIVE parseWebVTTTextLoop(_, _, _, _, _)
parseWebVTTTextLoop(input, ends, lastIndex, tagStack, line) ==
  With(VTTTagExec(input, lastIndex, ends), LAMBDA match :
    IF match = Undefined
    THEN [line EXCEPT !.items = @ \o VTTTextItems(From(input, lastIndex), tagStack)]
    ELSE parseWebVTTTextLoop(input, ends, match[1].lastIndex,
           VTTStackAfter(tagStack, match[1]),
           [line EXCEPT
              !.items = @ \o VTTTextItems(Sub(input, lastIndex, match[1].index - 1),
                                          tagStack),
              !.voiceName = VTTVoiceAfter(@, match[1])]))

parseWebVTTText(input, styleAttrs) ==
  parseWebVTTTextLoop(input, VTTTagEnds(input), 1, <<>>, Line(<<>>))

(***************************************************************************)
(* readFromWebVTT.  st holds the local variables of the function; the      *)
(* object styleAttrs refers to is also the inlineStyle of the default      *)
(* style once a STYLE block has registered it, and currentItem is the      *)
(* last item pushed.                                                       *)
(***************************************************************************)
\* Map.prototype.set
MapSet(map, key, value) ==
  [k \in DOMAIN map \cup {key} |-> IF k = key THEN value ELSE map[k]]

\* A write to the object styleAttrs refers to.
SetStyleAttrs(st, attrs) ==
  [st EXCEPT !.styleAttrs = attrs,
             !.subtitles.styles =
                IF WEBVTT_DEFAULT_STYLE_ID \in DOMAIN @
                THEN [@ EXCEPT ![WEBVTT_DEFAULT_STYLE_ID].inlineStyle = Ref(attrs)]
                ELSE @]

\* Skip lines until the WEBVTT header: the index of the first content line,
\* and lineNum after the loop (an empty line ends the loop uncounted).
RECURSIVE VTTSkipHeader(_, _)
VTTSkipHeader(lines, k) ==
  IF k > Len(lines) THEN k
  ELSE IF lines[k] = "" THEN k + 1
  ELSE IF startsWith(trim(lines[k]), "WEBVTT") THEN k + 1
  ELSE VTTSkipHeader(lines, k + 1)

RECURSIVE VTTHeaderLineNum(_, _)
VTTHeaderLineNum(lines, k) ==
  IF k > Len(lines) THEN k - 1
  ELSE IF lines[k] = "" THEN k - 1
  ELSE IF startsWith(trim(lines[k]), "WEBVTT") THEN k
  ELSE VTTHeaderLineNum(lines, k + 1)

VTTComment(st, trimmed) ==
  [st EXCEPT !.blockName = WEBVTT_BLOCK_COMMENT, !.comments = Append(@, From(trimmed, 6))]

VTTStyleDone(styleAttrs) ==
  \/ styleAttrs.webvttStyles = Undefined
  \/ Len(styleAttrs.webvttStyles[1]) = 0
  \/ endsWith(styleAttrs.webvttStyles[1][Len(styleAttrs.webvttStyles[1])], "}")

VTTEmptyLine(st) ==
  With([st EXCEPT !.blockName =
          IF @ = WEBVTT_BLOCK_STYLE /\ ~VTTStyleDone(st.styleAttrs) THEN @ ELSE ""],
       LAMBDA reset :
    IF st.styleAttrs.webvttTags # Undefined
    THEN SetStyleAttrs(reset, [st.styleAttrs EXCEPT !.webvttTags = Ref(<<>>)])
    ELSE reset)

VTTRegionSetting(region, key, value) ==
  CASE key = "id" -> [region EXCEPT !.id = value]
    [] key = "lines" -> [region EXCEPT !.inlineStyle[1].webvttLines = Ref(parseInt(value))]
    [] key = "regionanchor" -> [region EXCEPT !.inlineStyle[1].webvttRegionAnchor = Ref(value)]
    [] key = "scroll" -> [region EXCEPT !.inlineStyle[1].webvttScroll = Ref(value)]
    [] key = "viewportanchor" ->
         [region EXCEPT !.inlineStyle[1].webvttViewportAnchor = Ref(value)]
    [] key = "width" -> [region EXCEPT !.inlineStyle[1].webvttWidth = Ref(value)]
    [] OTHER -> region

RECURSIVE VTTRegionSettings(_, _, _)
VTTRegionSettings(region, parts, i) ==
  IF i > Len(parts) THEN region
  ELSE With(KeyValue(parts[i], "="), LAMBDA pair :
         VTTRegionSettings(
           IF Falsy(pair) THEN region
           ELSE VTTRegionSetting(region, toLowerCase(pair.key), pair.value[1]),
           parts, i + 1))

VTTRegion(st, trimmed) ==
  With(VTTRegionSettings([Region("", Undefined) EXCEPT !.inlineStyle = Ref(StyleAttributes)],
                         splitWhiteSpace(From(trimmed, 9)), 1), LAMBDA region :
    [st EXCEPT !.subtitles.regions = MapSet(@, region.id, region)])

VTTStyle(st) ==
  IF WEBVTT_DEFAULT_STYLE_ID \notin DOMAIN st.subtitles.styles
  THEN [st EXCEPT
          !.blockName = WEBVTT_BLOCK_STYLE,
          !.styleAttrs = StyleAttributes,
          !.subtitles.styles =
             MapSet(@, WEBVTT_DEFAULT_STYLE_ID,
                    [Style(WEBVTT_DEFAULT_STYLE_ID) EXCEPT
                       !.inlineStyle = Ref(StyleAttributes)])]
  ELSE [st EXCEPT !.blockName = WEBVTT_BLOCK_STYLE]

VTTTimestampMap(st, trimmed) ==
  With(parseWebVTTTimestampMap(trimmed), LAMBDA timestampMap :
    IF timestampMap.thrown THEN st
    ELSE [st EXCEPT !.subtitles.metadata =
            Ref([webvttTimestampMap |-> Ref(timestampMap.value)])])

VTTCueSetting(item, regions, key, value) ==
  CASE key = "align" -> [item EXCEPT !.inlineStyle[1].webvttAlign = Ref(value)]
    [] key = "line" -> [item EXCEPT !.inlineStyle[1].webvttLine = Ref(value)]
    [] key = "position" ->
         [item EXCEPT !.inlineStyle[1].webvttPosition = parseWebVTTPosition(value)]
    [] key = "region" ->
         IF value \in DOMAIN regions THEN [item EXCEPT !.region = Ref(regions[value])]
         ELSE item
    [] key = "size" -> [item EXCEPT !.inlineStyle[1].webvttSize = Ref(value)]
    [] key = "vertical" -> [item EXCEPT !.inlineStyle[1].webvttVertical = Ref(value)]
    [] OTHER -> item

RECURSIVE VTTCueSettings(_, _, _, _)
VTTCueSettings(item, regions, endAndSettings, i) ==
  IF i > Len(endAndSettings) THEN item
  ELSE With(KeyValue(endAndSettings[i], ":"), LAMBDA pair :
         VTTCueSettings(
           IF Falsy(pair) THEN item
           ELSE VTTCueSetting(item, regions, toLowerCase(pair.key), pair.value[1]),
           regions, endAndSettings, i + 1))

\* The item a line with time boundaries opens (thrown errors without the
\* text of their cause).
VTTCueItem(st, startAt, endAt, endAndSettings) ==
  IF startAt.thrown \/ endAt.thrown
  THEN Throw("Line " \o toString(st.lineNum) \o ": Failed to parse time boundaries")
  ELSE Return(VTTCueSettings(
         [Item(startAt.value, endAt.value, <<>>, Undefined, Undefined) EXCEPT
            !.comments = st.comments,
            !.index = Ref(st.index),
            !.inlineStyle = Ref(StyleAttributes)],
         st.subtitles.regions, endAndSettings, 2))

\* A variant of the cue branch that leaves the pending comments and index
\* in place.
VTTCueKeepPending(st, trimmed) ==
  With(split(trimmed, WEBVTT_TIME_BOUNDARIES_SEPARATOR), LAMBDA parts :
  With(splitWhiteSpace(trim(parts[2])), LAMBDA endAndSettings :
  With(VTTCueItem(st, parseWebVTTDuration(trim(parts[1])),
                  parseWebVTTDuration(endAndSettings[1]), endAndSettings),
       LAMBDA currentItem :
    IF currentItem.thrown THEN currentItem
    ELSE Return([st EXCEPT !.blockName = WEBVTT_BLOCK_TEXT,
                           !.subtitles.items = Append(@, currentItem.value)]))))

VTTCue(st, trimmed) ==
  With(split(trimmed, WEBVTT_TIME_BOUNDARIES_SEPARATOR), LAMBDA parts :
  With(splitWhiteSpace(trim(parts[2])), LAMBDA endAndSettings :
  With(VTTCueItem(st, parseWebVTTDuration(trim(parts[1])),
                  parseWebVTTDuration(endAndSettings[1]), endAndSettings),
       LAMBDA currentItem :
    IF currentItem.thrown THEN currentItem
    ELSE Return([st EXCEPT !.blockName = WEBVTT_BLOCK_TEXT,
                           !.comments = <<>>,
                           !.index = 0,
                           !.subtitles.items = Append(@, currentItem.value)]))))

VTTCueText(st, parsedLine) ==
  IF parsedLine.items # <<>>
  THEN [st EXCEPT !.subtitles.items[Len(st.subtitles.items)].lines = Append(@, parsedLine)]
  ELSE st

VTTCueIdentifier(st, parsedIndex) ==
  IF parsedIndex # NaN THEN [st EXCEPT !.index = parsedIndex[1]] ELSE st

VTTContent(st, trimmed) ==
  CASE st.blockName = WEBVTT_BLOCK_COMMENT -> [st EXCEPT !.comments = Append(@, trimmed)]
    [] st.blockName = WEBVTT_BLOCK_STYLE ->
         SetStyleAttrs(st,
           [st.styleAttrs EXCEPT !.webvttStyles =
              Ref((IF @ = Undefined THEN <<>> ELSE @[1]) \o <<trimmed>>)])
    [] st.blockName = WEBVTT_BLOCK_TEXT ->
         IF st.subtitles.items # <<>>
         THEN VTTCueText(st, parseWebVTTText(trimmed, st.styleAttrs))
         ELSE st
    [] OTHER -> VTTCueIdentifier(st, parseInt(trimmed))

\* One turn of the content loop on the trimmed line.
VTTLine(st, trimmed) ==
  IF startsWith(trimmed, "NOTE ") THEN Return(VTTComment(st, trimmed))
  ELSE IF Len(trimmed) = 0 THEN Return(VTTEmptyLine(st))
  ELSE IF startsWith(trimmed, "Region: ") THEN Return(VTTRegion(st, trimmed))
  ELSE IF startsWith(trimmed, "STYLE") THEN Return(VTTStyle(st))
  ELSE IF startsWith(trimmed, WEBVTT_TIMESTAMP_MAP_HEADER)
  THEN Return(VTTTimestampMap(st, trimmed))
  ELSE IF includes(trimmed, WEBVTT_TIME_BOUNDARIES_SEPARATOR) THEN VTTCue(st, trimmed)
  ELSE Return(VTTContent(st, trimmed))

RECURSIVE readVTTLoop(_, _, _)
readVTTLoop(lines, k, st) ==
  IF k > Len(lines) THEN Return(st.subtitles)
  ELSE With(VTTLine([st EXCEPT !.lineNum = @ + 1], trim(lines[k])), LAMBDA r :
         IF r.thrown THEN r ELSE readVTTLoop(lines, k + 1, r.value))

readFromWebVTT(content) ==
  With(splitLines(removeBOM(content)), LAMBDA lines :
    readVTTLoop(lines, VTTSkipHeader(lines, 1),
                [blockName |-> "", comments |-> <<>>, index |-> 0,
                 lineNum |-> VTTHeaderLineNum(lines, 1),
                 styleAttrs |-> StyleAttributes,
                 subtitles |-> Subtitles(<<>>, EmptyMap, EmptyMap)]))

(***************************************************************************)
(* writeToWebVTT                                                           *)
(***************************************************************************)
webvttTagStartTag(tag) ==
  IF tag.name = "" THEN ""
  ELSE "<" \o tag.name
         \o (IF tag.classes # Undefined /\ Len(tag.classes[1]) > 0
             THEN "." \o join(tag.classes[1], ".") ELSE "")
         \o (IF tag.annotation # "" THEN " " \o tag.annotation ELSE "")
         \o ">"

webvttTagEndTag(tag) == IF tag.name = "" THEN "" ELSE "</" \o tag.name \o ">"

cssColorToWebVTT(rgb) ==
  With(toLowerCase(rgb), LAMBDA key :
    CASE key = "#00ffff" -> "cyan"
      [] key = "#ffff00" -> "yellow"
      [] key = "#ff0000" -> "red"
      [] key = "#ff00ff" -> "magenta"
      [] key = "#00ff00" -> "lime"
      [] OTHER -> "")

\* item.inlineStyle?.webvttTags, the empty list when there is none.
TagsOf(item) ==
  IF item # Undefined /\ item[1].inlineStyle # Undefined
                      /\ item[1].inlineStyle[1].webvttTags # Undefined
  THEN item[1].inlineStyle[1].webvttTags[1]
  ELSE <<>>

\* The tag at depth i is the tag of the neighbour at the same depth.
SameTagAt(neighbour, i, tag) ==
  Len(TagsOf(neighbour)) >= i /\ TagsOf(neighbour)[i].name = tag.name

VTTColor(item) ==
  IF /\ \A i \in 1..Len(TagsOf(Ref(item))) : TagsOf(Ref(item))[i].name # "c"
     /\ item.inlineStyle # Undefined
     /\ item.inlineStyle[1].ttmlColor # Undefined
     /\ item.inlineStyle[1].ttmlColor[1] # ""
  THEN cssColorToWebVTT(item.inlineStyle[1].ttmlColor[1])
  ELSE ""

VTTLineItemString(item, previous, next, color, tags) ==
  (IF item.startAt # Undefined /\ item.startAt[1] # 0
   THEN "<" \o formatWebVTTDuration(item.startAt[1]) \o ">" ELSE "")
    \o (IF color # "" THEN "<c." \o color \o ">" ELSE "")
    \o ConcatMap(LAMBDA i : IF SameTagAt(previous, i, tags[i]) THEN ""
                            ELSE webvttTagStartTag(tags[i]), 1, Len(tags))
    \o escapeHTML(item.text)
    \o ConcatMap(LAMBDA j : IF SameTagAt(next, Len(tags) + 1 - j, tags[Len(tags) + 1 - j])
                            THEN ""
                            ELSE webvttTagEndTag(tags[Len(tags) + 1 - j]), 1, Len(tags))
    \o (IF color # "" THEN "</c>" ELSE "")

lineItemToWebVTTString(item, previous, next) ==
  VTTLineItemString(item, previous, next, VTTColor(item), TagsOf(Ref(item)))

lineToWebVTTString(line) ==
  (IF line.voiceName # "" THEN "<v " \o line.voiceName \o ">" ELSE "")
    \o ConcatMap(LAMBDA i :
         lineItemToWebVTTString(line.items[i],
           IF i > 1 THEN Ref(line.items[i - 1]) ELSE Undefined,
           IF i < Len(line.items) THEN Ref(line.items[i + 1]) ELSE Undefined),
         1, Len(line.items))

\* owner.inlineStyle?.[prop] ?? owner.style?.inlineStyle?.[prop]
getStyle(owner, prop) ==
  IF owner.inlineStyle # Undefined /\ owner.inlineStyle[1][prop] # Undefined
  THEN owner.inlineStyle[1][prop]
  ELSE IF owner.style # Undefined /\ owner.style[1].inlineStyle # Undefined
  THEN owner.style[1].inlineStyle[1][prop]
  ELSE Undefined

\* if (value) output += prefix + value, for a string value.
VTTSetting(prefix, value) ==
  IF value # Undefined /\ value[1] # "" THEN prefix \o value[1] ELSE ""

\* The same for webvttLines, a number or NaN.
VTTLinesSetting(lines) ==
  IF lines # Undefined /\ lines[1] # NaN /\ lines[1][1] # 0
  THEN " lines=" \o toString(lines[1][1]) ELSE ""

\* The code units of the characters a text of the model can hold (U+0060
\* cannot be written in a TLA+ string).
ASCII ==
  " !\"#$%&'()*+,-./0123456789:;<=>?@ABCDEFGHIJKLMNOPQRSTUVWXYZ[\\]^_"
charCodeAt(c) ==
  CASE c = "\n" -> 10
    [] c = "\r" -> 13
    [] c = NBSP -> 160
    [] c = BOM -> 65279
    [] c \in LowerChars \cup {"{", "|", "}", "~"} ->
         96 + CHOOSE i \in 1..30 : Char(LowerCase \o "{|}~", i) = c
    [] OTHER -> 31 + CHOOSE i \in 1..Len(ASCII) : Char(ASCII, i) = c

RECURSIVE StringLess(_, _)
StringLess(a, b) ==
  IF b = "" THEN FALSE
  ELSE IF a = "" THEN TRUE
  ELSE IF Head(a) = Head(b) THEN StringLess(Tail(a), Tail(b))
  ELSE charCodeAt(Head(a)) < charCodeAt(Head(b))

\* Array.prototype.sort() of a set of distinct strings.
RECURSIVE sort(_)
sort(strings) ==
  IF strings = {} THEN <<>>
  ELSE With(CHOOSE x \in strings : \A y \in strings \ {x} : StringLess(x, y),
            LAMBDA least : <<least>> \o sort(strings \ {least}))

\* The webvttStyles of the styles, the styles taken in the order of their
\* ids (a Map of the model keeps no insertion order; the reader registers
\* one style at most).
RECURSIVE VTTStyleLines(_, _, _)
VTTStyleLines(styles, ids, i) ==
  IF i > Len(ids) THEN <<>>
  ELSE (IF styles[ids[i]].inlineStyle # Undefined
           /\ styles[ids[i]].inlineStyle[1].webvttStyles # Undefined
        THEN styles[ids[i]].inlineStyle[1].webvttStyles[1] ELSE <<>>)
       \o VTTStyleLines(styles, ids, i + 1)

VTTStylesString(styles) ==
  IF Len(styles) > 0 THEN "STYLE\n" \o join(styles, "\n") \o "\n\n" ELSE ""

VTTRegionString(region) ==
  "Region: id=" \o region.id
    \o VTTLinesSetting(getStyle(region, "webvttLines"))
    \o VTTSetting(" regionanchor=", getStyle(region, "webvttRegionAnchor"))
    \o VTTSetting(" scroll=", getStyle(region, "webvttScroll"))
    \o VTTSetting(" viewportanchor=", getStyle(region, "webvttViewportAnchor"))
    \o VTTSetting(" width=", getStyle(region, "webvttWidth"))
    \o "\n"

VTTRegionsString(regions, regionIds) ==
  ConcatMap(LAMBDA i : VTTRegionString(regions[regionIds[i]]), 1, Len(regionIds))
    \o (IF Len(regionIds) > 0 THEN "\n" ELSE "")

VTTCueString(item, i) ==
  (IF Len(item.comments) > 0 THEN "NOTE " \o join(item.comments, "\n") \o "\n\n" ELSE "")
    \o toString(i) \o "\n"
    \o formatWebVTTDuration(item.startAt) \o " " \o WEBVTT_TIME_BOUNDARIES_SEPARATOR
    \o " " \o formatWebVTTDuration(item.endAt)
    \o VTTSetting(" align:", getStyle(item, "webvttAlign"))
    \o VTTSetting(" line:", getStyle(item, "webvttLine"))
    \o (IF getStyle(item, "webvttPosition") # Undefined
        THEN " position:" \o formatWebVTTPosition(getStyle(item, "webvttPosition"))
        ELSE "")
    \o (IF item.region # Undefined THEN " region:" \o item.region[1].id ELSE "")
    \o VTTSetting(" size:", getStyle(item, "webvttSize"))
    \o VTTSetting(" vertical:", getStyle(item, "webvttVertical"))
    \o "\n"
    \o ConcatMap(LAMBDA l : lineToWebVTTString(item.lines[l]) \o "\n", 1, Len(item.lines))
    \o "\n"

writeToWebVTT(subtitles) ==
  IF Len(subtitles.items) = 0 THEN Throw("No subtitles to write")
  ELSE Return(trimEnd(
         "WEBVTT"
           \o (IF subtitles.metadata # Undefined
                  /\ subtitles.metadata[1].webvttTimestampMap # Undefined
               THEN "\n" \o formatWebVTTTimestampMap(
                              subtitles.metadata[1].webvttTimestampMap[1].local,
                              subtitles.metadata[1].webvttTimestampMap[1].mpegTS)
               ELSE "")
           \o "\n\n"
           \o VTTStylesString(VTTStyleLines(subtitles.styles,
                                            sort(DOMAIN subtitles.styles), 1))
           \o VTTRegionsString(subtitles.regions, sort(DOMAIN subtitles.regions))
           \o ConcatMap(LAMBDA i : VTTCueString(subtitles.items[i], i),
                        1, Len(subtitles.items)))
         \o "\n")

(***************************************************************************)
(* subtitles.ts: readFromString, writeToString                             *)
(***************************************************************************)
readFromString(content, format) ==
  IF toLowerCase(format) = "srt" THEN readFromSRT(content)
  ELSE InvalidExtensionError

writeToString(subtitles, format) ==
  IF Len(subtitles.items) = 0 THEN NoSubtitlesToWriteError
  ELSE IF toLowerCase(format) = "srt" THEN writeToSRT(subtitles)
  ELSE InvalidExtensionError

(***************************************************************************)
(* JavaScript numbers.  A number is an IEEE 754 double: NaN, an infinity,  *)
(* or sign * m * 2^e with m a natural number of at most 53 bits, held as a  *)
(* little-endian sequence of 15-bit limbs without leading zero limbs.  The  *)
(* exponent is unbounded (no value of the model overflows or underflows)    *)
(* and the sign of zero is not kept.  Every operation is the exact result   *)
(* rounded to nearest, ties to even.                                        *)
(***************************************************************************)
Limb == 2^15

RECURSIVE BigNorm(_)
BigNorm(x) ==
  IF Len(x) > 0 /\ x[Len(x)] = 0 THEN BigNorm(SubSeq(x, 1, Len(x) - 1)) ELSE x

RECURSIVE BigFromInt(_)
BigFromInt(n) == IF n = 0 THEN <<>> ELSE <<n % Limb>> \o BigFromInt(n \div Limb)

RECURSIVE BigToInt(_)
BigToInt(x) == IF Len(x) = 0 THEN 0 ELSE x[1] + Limb * BigToInt(Tail(x))

BigLimb(x, i) == IF i <= Len(x) THEN x[i] ELSE 0

RECURSIVE BigAddFrom(_, _, _, _)
BigAddFrom(x, y, i, carry) ==
  IF i > Len(x) /\ i > Len(y)
  THEN IF carry = 0 THEN <<>> ELSE <<carry>>
  ELSE With(BigLimb(x, i) + BigLimb(y, i) + carry,
            LAMBDA t : <<t % Limb>> \o BigAddFrom(x, y, i + 1, t \div Limb))

BigAdd(x, y) == BigAddFrom(x, y, 1, 0)

\* x - y for x >= y.
RECURSIVE BigSubFrom(_, _, _, _)
BigSubFrom(x, y, i, borrow) ==
  IF i > Len(x) THEN <<>>
  ELSE With(x[i] - BigLimb(y, i) - borrow,
            LAMBDA t : IF t < 0 THEN <<t + Limb>> \o BigSubFrom(x, y, i + 1, 1)
                       ELSE <<t>> \o BigSubFrom(x, y, i + 1, 0))

BigSub(x, y) == BigNorm(BigSubFrom(x, y, 1, 0))

\* -1, 0 or 1 as x <, = or > y, comparing from limb i down.
RECURSIVE BigCmpFrom(_, _, _)
BigCmpFrom(x, y, i) ==
  IF i = 0 THEN 0
  ELSE IF x[i] < y[i] THEN -1
  ELSE IF x[i] > y[i] THEN 1
  ELSE BigCmpFrom(x, y, i - 1)

BigCmp(x, y) ==
  IF Len(x) < Len(y) THEN -1
  ELSE IF Len(x) > Len(y) THEN 1
  ELSE BigCmpFrom(x, y, Len(x))

\* x * k for 0 <= k <= Limb.
RECURSIVE BigMulSmallFrom(_, _, _, _)
BigMulSmallFrom(x, k, i, carry) ==
  IF i > Len(x) THEN IF carry = 0 THEN <<>> ELSE <<carry>>
  ELSE With(x[i] * k + carry,
            LAMBDA t : <<t % Limb>> \o BigMulSmallFrom(x, k, i + 1, t \div Limb))

BigMulSmall(x, k) == BigNorm(BigMulSmallFrom(x, k, 1, 0))

\* x * k for a natural number k.
RECURSIVE BigMulInt(_, _)
BigMulInt(x, k) ==
  IF k = 0 THEN <<>>
  ELSE BigAdd(BigMulSmall(x, k % Limb),
              IF k < Limb THEN <<>> ELSE <<0>> \o BigMulInt(x, k \div Limb))

\* <<quotient, remainder>> of x by k for 0 < k <= Limb, from limb i down
\* with the remainder so far.
RECURSIVE BigDivSmallFrom(_, _, _, _)
BigDivSmallFrom(x, k, i, rem) ==
  IF i = 0 THEN <<<<>>, rem>>
  ELSE With(rem * Limb + x[i],
            LAMBDA t : With(BigDivSmallFrom(x, k, i - 1, t % k),
                            LAMBDA r : <<r[1] \o <<t \div k>>, r[2]>>))

BigDivSmall(x, k) ==
  With(BigDivSmallFrom(x, k, Len(x), 0), LAMBDA r : <<BigNorm(r[1]), r[2]>>)

Zeros(n) == [i \in 1..n |-> 0]

\* x * 2^s and floor(x / 2^s).
BigShl(x, s) ==
  IF Len(x) = 0 THEN x ELSE Zeros(s \div 15) \o BigMulSmall(x, 2^(s % 15))

BigShr(x, s) ==
  IF s \div 15 >= Len(x) THEN <<>>
  ELSE BigDivSmall(SubSeq(x, s \div 15 + 1, Len(x)), 2^(s % 15))[1]

\* Bit i of x (bit 0 is the lowest), and whether the s lowest bits are 0.
BigBit(x, i) == (BigLimb(x, i \div 15 + 1) \div 2^(i % 15)) % 2

BigLowZero(x, s) ==
  /\ \A i \in 1..(s \div 15) : BigLimb(x, i) = 0
  /\ BigLimb(x, s \div 15 + 1) % 2^(s % 15) = 0

RECURSIVE BitLength(_)
BitLength(n) == IF n = 0 THEN 0 ELSE 1 + BitLength(n \div 2)

BigBitLen(x) == IF Len(x) = 0 THEN 0 ELSE 15 * (Len(x) - 1) + BitLength(x[Len(x)])

Finite(neg, m, e) == [kind |-> "finite", neg |-> neg, m |-> m, e |-> e]
NotANumber == [kind |-> "NaN", neg |-> FALSE, m |-> <<>>, e |-> 0]
Infinite(neg) == [kind |-> "Infinity", neg |-> neg, m |-> <<>>, e |-> 0]

\* sign * m * 2^e rounded to 53 bits, ties to even.
RoundToDouble(neg, m, e) ==
  IF BigBitLen(m) <= 53 THEN Finite(neg /\ Len(m) > 0, m, e)
  ELSE With(BigBitLen(m) - 53, LAMBDA s :
         With(BigShr(m, s), LAMBDA q :
           IF BigBit(m, s - 1) = 1 /\ (~BigLowZero(m, s - 1) \/ BigBit(q, 0) = 1)
           THEN Finite(neg, BigAdd(q, <<1>>), e + s)
           ELSE Finite(neg, q, e + s)))

Abs(n) == IF n < 0 THEN 0 - n ELSE n

\* An integer of the model as a number.
ToNumber(n) == Finite(n < 0, BigFromInt(Abs(n)), 0)

\* n / d for integers n and d, |d| <= Limb: the quotient to 75 fraction
\* bits, with one more bit that is set when the division is inexact.
Divide(n, d) ==
  IF d = 0 THEN IF n = 0 THEN NotANumber ELSE Infinite(n < 0)
  ELSE With(BigDivSmall(Zeros(5) \o BigFromInt(Abs(n)), Abs(d)), LAMBDA r :
         RoundToDouble((n < 0) # (d < 0),
                       BigAdd(BigMulSmall(r[1], 2), IF r[2] = 0 THEN <<>> ELSE <<1>>),
                       -76))

\* x * k for a number x and an integer k.
Multiply(x, k) ==
  IF x.kind = "NaN" THEN NotANumber
  ELSE IF x.kind = "Infinity"
       THEN IF k = 0 THEN NotANumber ELSE Infinite(x.neg # (k < 0))
  ELSE RoundToDouble(x.neg # (k < 0), BigMulInt(x.m, Abs(k)), x.e)

\* x + y for finite numbers: both significands at the lower exponent.
AddFinite(x, y) ==
  With(IF x.e < y.e THEN x.e ELSE y.e, LAMBDA e :
    With(BigShl(x.m, x.e - e), LAMBDA mx :
      With(BigShl(y.m, y.e - e), LAMBDA my :
        IF x.neg = y.neg THEN RoundToDouble(x.neg, BigAdd(mx, my), e)
        ELSE IF BigCmp(mx, my) >= 0 THEN RoundToDouble(x.neg, BigSub(mx, my), e)
        ELSE RoundToDouble(y.neg, BigSub(my, mx), e))))

Plus(x, y) ==
  IF x.kind = "NaN" \/ y.kind = "NaN" THEN NotANumber
  ELSE IF x.kind = "Infinity"
       THEN IF y.kind = "Infinity" /\ x.neg # y.neg THEN NotANumber ELSE x
  ELSE IF y.kind = "Infinity" THEN y
  ELSE AddFinite(x, y)

Negate(x) == IF x.kind = "NaN" \/ (x.kind = "finite" /\ Len(x.m) = 0) THEN x ELSE [x EXCEPT !.neg = ~@]

Minus(x, y) == Plus(x, Negate(y))

Infinity == <<1, 0>>
NegativeInfinity == <<-1, 0>>

\* Math.floor(x): <<n>> for the integer n, NaN, Infinity or NegativeInfinity.
MathFloor(x) ==
  IF x.kind = "NaN" THEN NaN
  ELSE IF x.kind = "Infinity" THEN IF x.neg THEN NegativeInfinity ELSE Infinity
  ELSE IF x.e >= 0
       THEN <<(IF x.neg THEN -1 ELSE 1) * BigToInt(BigShl(x.m, x.e))>>
  ELSE With(BigToInt(BigShr(x.m, 0 - x.e)), LAMBDA q :
         IF ~x.neg THEN <<q>>
         ELSE IF BigLowZero(x.m, 0 - x.e) THEN <<0 - q>>
         ELSE <<0 - q - 1>>)

(***************************************************************************)
(* applyLinearCorrection.  a and b are doubles; an item keeps the integer  *)
(* Math.floor returns, or NaN, Infinity or NegativeInfinity.               *)
(***************************************************************************)
\* Math.floor(a * t + b) for an item timestamp t.
correctedTimestamp(t, actual1, desired1, actual2, desired2) ==
  With(Divide(desired2 - desired1, actual2 - actual1), LAMBDA a :
    With(Minus(ToNumber(desired1), Multiply(a, actual1)), LAMBDA b :
      MathFloor(Plus(Multiply(a, t), b))))

NumberValue(n) == IF Len(n) = 1 THEN n[1] ELSE n

applyLinearCorrection(s, actual1, desired1, actual2, desired2) ==
  [s EXCEPT !.items =
     [i \in 1..Len(s.items) |->
        [s.items[i] EXCEPT
           !.startAt = NumberValue(correctedTimestamp(s.items[i].startAt,
                                     actual1, desired1, actual2, desired2)),
           !.endAt = NumberValue(correctedTimestamp(s.items[i].endAt,
                                   actual1, desired1, actual2, desired2))]]]

(***************************************************************************)
(* The operations as actions.  Each records itself in last.               *)
(***************************************************************************)
Step(op, args) ==
  /\ last' = [op |-> op, args |-> args, pre |-> subs]
  /\ prev' = last
  /\ steps' = steps + 1
  /\ UNCHANGED <<other, limit, loop, scanner>>

Record(op, args) == Step(op, args) /\ UNCHANGED <<data, time, thrown>>

DoAdd(duration) ==
  /\ steps < limit
  /\ subs' = add(subs, duration)
  /\ Record("add", <<duration>>)

DoForceDuration(duration, addDummyItem) ==
  /\ steps < limit
  /\ subs' = forceDuration(subs, duration, addDummyItem)
  /\ Record("forceDuration", <<duration, addDummyItem>>)

DoFragment(fragmentDuration) ==
  /\ steps < limit
  /\ subs' = fragment(subs, fragmentDuration)
  /\ Record("fragment", <<fragmentDuration>>)

DoUnfragment ==
  /\ steps < limit
  /\ subs' = unfragment(subs)
  /\ Record("unfragment", <<>>)

DoOrder ==
  /\ steps < limit
  /\ subs' = order(subs)
  /\ Record("order", <<>>)

DoMerge ==
  /\ steps < limit
  /\ subs' = merge(subs, other)
  /\ Record("merge", <<>>)

DoOptimize ==
  /\ steps < limit
  /\ subs' = optimize(subs)
  /\ Record("optimize", <<>>)

DoRemoveStyling ==
  /\ steps < limit
  /\ subs' = removeStyling(subs)
  /\ Record("removeStyling", <<>>)

DoApplyLinearCorrection(actual1, desired1, actual2, desired2) ==
  /\ steps < limit
  /\ subs' = applyLinearCorrection(subs, actual1, desired1, actual2, desired2)
  /\ Record("applyLinearCorrection", <<actual1, desired1, actual2, desired2>>)

(***************************************************************************)
(* The codec functions as actions.  data is the string a reader is given   *)
(* and a writer returns; a thrown error ends the run.                      *)
(***************************************************************************)
DoFormatDuration(millisecondSep, numberOfMillisecondDigits) ==
  /\ steps < limit /\ thrown = Undefined
  /\ data' = formatDuration(time, millisecondSep, numberOfMillisecondDigits)
  /\ Step("formatDuration", <<time, millisecondSep, numberOfMillisecondDigits>>)
  /\ UNCHANGED <<subs, time, thrown>>

DoParseDuration(millisecondSep, numberOfMillisecondDigits) ==
  /\ steps < limit /\ thrown = Undefined
  /\ LET r == parseDuration(data, millisecondSep, numberOfMillisecondDigits)
     IN /\ time' = IF r.thrown THEN time ELSE r.value
        /\ thrown' = IF r.thrown THEN Ref(ErrorOf(r)) ELSE Undefined
  /\ Step("parseDuration", <<data, millisecondSep, numberOfMillisecondDigits>>)
  /\ UNCHANGED <<subs, data>>

DoReadFromSRT ==
  /\ steps < limit /\ thrown = Undefined
  /\ LET r == readFromSRT(data)
     IN /\ subs' = IF r.thrown THEN subs ELSE r.value
        /\ thrown' = IF r.thrown THEN Ref(ErrorOf(r)) ELSE Undefined
  /\ Step("readFromSRT", <<data>>)
  /\ UNCHANGED <<data, time>>

DoWriteToSRT ==
  /\ steps < limit /\ thrown = Undefined
  /\ LET r == writeToSRT(subs)
     IN /\ data' = IF r.thrown THEN data ELSE r.value
        /\ thrown' = IF r.thrown THEN Ref(ErrorOf(r)) ELSE Undefined
  /\ Step("writeToSRT", <<>>)
  /\ UNCHANGED <<subs, time>>

DoReadFromWebVTT ==
  /\ steps < limit /\ thrown = Undefined
  /\ LET r == readFromWebVTT(data)
     IN /\ subs' = IF r.thrown THEN subs ELSE r.value
        /\ thrown' = IF r.thrown THEN Ref(ErrorOf(r)) ELSE Undefined
  /\ Step("readFromWebVTT", <<data>>)
  /\ UNCHANGED <<data, time>>

DoWriteToWebVTT ==
  /\ steps < limit /\ thrown = Undefined
  /\ LET r == writeToWebVTT(subs)
     IN /\ data' = IF r.thrown THEN data ELSE r.value
        /\ thrown' = IF r.thrown THEN Ref(ErrorOf(r)) ELSE Undefined
  /\ Step("writeToWebVTT", <<>>)
  /\ UNCHANGED <<subs, time>>

DoReadFromString(format) ==
  /\ steps < limit /\ thrown = Undefined
  /\ LET r == readFromString(data, format)
     IN /\ subs' = IF r.thrown THEN subs ELSE r.value
        /\ thrown' = IF r.thrown THEN Ref(ErrorOf(r)) ELSE Undefined
  /\ Step("readFromString", <<data, format>>)
  /\ UNCHANGED <<data, time>>

DoWriteToString(format) ==
  /\ steps < limit /\ thrown = Undefined
  /\ LET r == writeToString(subs, format)
     IN /\ data' = IF r.thrown THEN data ELSE r.value
        /\ thrown' = IF r.thrown THEN Ref(ErrorOf(r)) ELSE Undefined
  /\ Step("writeToString", <<format>>)
  /\ UNCHANGED <<subs, time>>

(***************************************************************************)
(* Inputs.                                                                 *)
(***************************************************************************)
TextLines(text) == <<Line(<<LineItem(text, Undefined)>>)>>

PlainItems(times, texts) ==
  {Item(s, e, TextLines(x), Undefined, Undefined) :
     <<s, e, x>> \in {y \in times \X times \X texts : y[1] <= y[2]}}

\* Items whose endAt may precede their startAt (the readers do not validate it).
AnyItems(times, texts) ==
  {Item(s, e, TextLines(x), Undefined, Undefined) : <<s, e, x>> \in times \X times \X texts}

\* The items numbered 1, 2, ... in their index field, as a reader numbers them.
Numbered(items) == [i \in 1..Len(items) |-> [items[i] EXCEPT !.index = <<i>>]]

PlainSubs(items) == Subtitles(items, EmptyMap, EmptyMap)

InitRun(s, o, n) ==
  /\ subs = s
  /\ other = o
  /\ last = [op |-> "init", args |-> <<>>, pre |-> s]
  /\ prev = [op |-> "init", args |-> <<>>, pre |-> s]
  /\ steps = 0
  /\ limit = n
  /\ data = ""
  /\ time = 0
  /\ thrown = Undefined
  /\ loop = Undefined
  /\ scanner = Undefined

\* The start of a codec run on the text t and the duration d.
InitCodec(t, d, n) ==
  /\ subs = PlainSubs(<<>>)
  /\ other = PlainSubs(<<>>)
  /\ last = [op |-> "init", args |-> <<>>, pre |-> PlainSubs(<<>>)]
  /\ prev = [op |-> "init", args |-> <<>>, pre |-> PlainSubs(<<>>)]
  /\ steps = 0
  /\ limit = n
  /\ data = t
  /\ time = d
  /\ thrown = Undefined
  /\ loop = Undefined
  /\ scanner = Undefined

(***************************************************************************)
(* Spec: one operation applied to a Subtitles value of up to MaxItems      *)
(* items with 0 <= startAt <= endAt, in any order.                         *)
(***************************************************************************)
WideItems == PlainItems(Seconds(MaxTick), {"a", "b"})
Others == {PlainSubs(<<>>), PlainSubs(<<Item(1000, 2000, TextLines("a"), Undefined, Undefined)>>)}
Deltas == {-2000, -1000, 0, 1000}
Windows == {1000, 2000}
Targets == {0, 1000, 2000, 4000}
\* <<actual1, desired1, actual2, desired2>> with actual1 # actual2 and a
\* slope that is a multiple of 1/2.
Corrections ==
  {<<1000, 2000, 5000, 7000>>, <<1000, 0, 2000, 1000>>, <<0, 0, 2000, 1000>>,
   <<0, 1000, 1000, 1000>>, <<2000, 0, 0, 2000>>, <<0, 0, 1000, 2000>>}

Init ==
  \E items \in SeqsUpTo(WideItems, MaxItems), o \in Others :
    InitRun(PlainSubs(items), o, 1)

Next ==
  \/ \E d \in Deltas : DoAdd(d)
  \/ \E t \in Targets, dummy \in BOOLEAN : DoForceDuration(t, dummy)
  \/ \E w \in Windows : DoFragment(w)
  \/ DoUnfragment
  \/ DoOrder
  \/ DoMerge
  \/ DoOptimize
  \/ DoRemoveStyling
  \/ \E c \in Corrections : DoApplyLinearCorrection(c[1], c[2], c[3], c[4])

Spec == Init /\ [][Next]_vars

(***************************************************************************)
(* SpecAdd: add applied once to up to MaxAddItems numbered items.          *)
(***************************************************************************)
AddItems == AnyItems(Seconds(MaxAddTick), {"a"})
AddDeltas == {-3000, -2000, -1000, 0, 1000}

InitAdd ==
  \E items \in SeqsUpTo(AddItems, MaxAddItems) :
    InitRun(PlainSubs(Numbered(items)), PlainSubs(<<>>), 1)

NextAdd == \E d \in AddDeltas : DoAdd(d)

SpecAdd == InitAdd /\ [][NextAdd]_vars

(***************************************************************************)
(* SpecFU: fragment, then unfragment, applied to one item.                 *)
(***************************************************************************)
FUItems ==
  PlainItems(Seconds(MaxFUTick), {"a"})
    \cup {[x EXCEPT !.lines = <<Line(<<LineItem("a", Undefined), LineItem("b", Undefined)>>),
                                 Line(<<LineItem("c", Undefined)>>)>>] :
            x \in PlainItems(Seconds(MaxFUTick), {"a"})}
FUWindows == {1000, 1500, 2000, 3000}

InitFU == \E item \in FUItems : InitRun(PlainSubs(<<item>>), PlainSubs(<<>>), 2)

NextFU ==
  \/ \E w \in FUWindows : last.op = "init" /\ DoFragment(w)
  \/ last.op = "fragment" /\ DoUnfragment

SpecFU == InitFU /\ [][NextFU]_vars

(***************************************************************************)
(* SpecOrder: order applied twice.                                         *)
(***************************************************************************)
OrderItems == PlainItems(Seconds(MaxOrderTick), {"a", "b"})

InitOrder ==
  \E items \in SeqsUpTo(OrderItems, MaxOrderItems) :
    InitRun(PlainSubs(items), PlainSubs(<<>>), 2)

NextOrder == DoOrder

SpecOrder == InitOrder /\ [][NextOrder]_vars

(***************************************************************************)
(* SpecSeq: sequences of up to MaxSteps operations on a Subtitles value    *)
(* whose items, line items and regions reference registered styles and     *)
(* regions.  The other Subtitles value of merge registers its own          *)
(* references; one of them reuses the region id r1 for a different region. *)
(***************************************************************************)
S1 == Style("s1")
S2 == Style("s2")
S3 == Style("s3")
S4 == Style("s4")
R1 == Region("r1", Ref(S2))
R2 == Region("r2", Undefined)
OtherR1 == Region("r1", Ref(S4))
R3 == Region("r3", Ref(S4))

SeqStyles == [id \in {"s1", "s2", "s3"} |-> Style(id)]
SeqRegions == [id \in {"r1", "r2"} |-> IF id = "r1" THEN R1 ELSE R2]

\* <<lines, item style, item region>>
SeqShapes ==
  {<<TextLines("a"), Undefined, Undefined>>,
   <<TextLines("a"), Ref(S1), Undefined>>,
   <<TextLines("b"), Undefined, Ref(R1)>>,
   <<<<Line(<<LineItem("a", Ref(S3)), LineItem("b", Undefined)>>)>>, Undefined, Ref(R2)>>}

SeqItems ==
  {Item(y[1], y[2], y[3][1], y[3][2], y[3][3]) :
     y \in {z \in Seconds(MaxSeqTick) \X Seconds(MaxSeqTick) \X SeqShapes : z[1] <= z[2]}}

SeqOthers ==
  {Subtitles(<<Item(0, 1000, TextLines("a"), Undefined, Ref(OtherR1))>>,
             [id \in {"s4"} |-> S4], [id \in {"r1"} |-> OtherR1]),
   Subtitles(<<Item(1000, 2000, TextLines("b"), Ref(S4), Ref(R3))>>,
             [id \in {"s4"} |-> S4], [id \in {"r3"} |-> R3])}

InitSeq ==
  \E items \in SeqsUpTo(SeqItems, MaxSeqItems), o \in SeqOthers :
    InitRun(Subtitles(items, SeqStyles, SeqRegions), o, MaxSteps)

NextSeq ==
  \/ \E d \in {-1000, 1000} : DoAdd(d)
  \/ \E dummy \in BOOLEAN : DoForceDuration(1000, dummy)
  \/ DoFragment(500)
  \/ DoUnfragment
  \/ DoOrder
  \/ DoMerge
  \/ DoOptimize
  \/ DoRemoveStyling

SpecSeq == InitSeq /\ [][NextSeq]_vars

(***************************************************************************)
(* SpecDur: a duration is formatted, and the text is parsed with the same  *)
(* number of millisecond digits.                                           *)
(***************************************************************************)
Separators == {",", "."}
DigitCounts == {2, 3}
DurationSamples ==
  {0, 1, 5, 9, 10, 11, 50, 99, 100, 120, 123, 500, 990, 999, 1000, 1001, 1010,
   1230, 59999, 60000, 61010, 3599999, 3600000, 3661001, 3723450, 36000000,
   86399990, 86399999}

InitDur == \E d \in DurationSamples : InitCodec("", d, 2)

NextDur ==
  \/ \E sep \in Separators, digits \in DigitCounts :
       last.op = "init" /\ DoFormatDuration(sep, digits)
  \/ \E sep \in Separators :
       last.op = "formatDuration" /\ DoParseDuration(sep, last.args[3])

SpecDur == InitDur /\ [][NextDur]_vars

(***************************************************************************)
(* SpecSRT: a text of up to MaxSRTLines lines is read, written and read    *)
(* again.                                                                  *)
(***************************************************************************)
SRTLines ==
  {"", "1",
   "00:00:00,000 --> 00:00:05,000",
   "00:00:01,5 --> 00:00:02.250 X1:0",
   "Hello",
   "<i>Hi</i> there",
   "a <b></b>",
   "a --&gt; b",
   "<font color=\"red\">R &amp; B</font>"}

SRTTexts == {join(lines, "\n") : lines \in SeqsUpTo(SRTLines, MaxSRTLines)}

InitSRT == \E t \in SRTTexts : InitCodec(t, 0, 3)

NextSRT == DoReadFromSRT \/ DoWriteToSRT

SpecSRT == InitSRT /\ [][NextSRT]_vars

(***************************************************************************)
(* SpecVTT: a WebVTT text of a header and up to MaxVTTLines lines is read, *)
(* written and read again.                                                 *)
(***************************************************************************)
VTTHeaders == {"WEBVTT\n"}
VTTLines ==
  {"", "1",
   "00:00:01.000 --> 00:00:02.000",
   "00:00:02.000 --> 00:00:04.500 region:r1 position:10%,center",
   "Hello",
   "<v Bob>Hi",
   "Hello <b>World</b>",
   "Hi <00:00:01.500>you",
   "a --&gt; b",
   "NOTE c",
   "Region: id=r1 lines=3",
   "STYLE",
   "X-TIMESTAMP-MAP=MPEGTS:900000"}

VTTTexts ==
  {header \o join(lines, "\n") :
     header \in VTTHeaders, lines \in SeqsUpTo(VTTLines, MaxVTTLines)}

InitVTT == \E t \in VTTTexts : InitCodec(t, 0, 3)

NextVTT == DoReadFromWebVTT \/ DoWriteToWebVTT

SpecVTT == InitVTT /\ [][NextVTT]_vars

(***************************************************************************)
(* Properties.                                                             *)
(***************************************************************************)
WellFormed(items) ==
  \A i \in 1..Len(items) : 0 <= items[i].startAt /\ items[i].startAt <= items[i].endAt

NonNegative(items) ==
  \A i \in 1..Len(items) : items[i].startAt >= 0 /\ items[i].endAt >= 0

IsSorted(items) ==
  \A i \in 1..Len(items) - 1 : items[i].startAt <= items[i + 1].startAt

\* C4: starting from items with 0 <= startAt <= endAt, after add, fragment,
\* applyLinearCorrection or forceDuration no item has a negative startAt or
\* endAt.
C4_NonNegativeTimestamps ==
  (last.op \in {"add", "fragment", "applyLinearCorrection", "forceDuration"}
     /\ WellFormed(last.pre.items))
    => NonNegative(subs.items)

\* What add must leave, stated item by item.
AddSurvives(item, delta) == ~(item.startAt + delta <= 0 /\ item.endAt + delta <= 0)
AddShifted(item, delta) ==
  [item EXCEPT !.endAt = @ + delta, !.startAt = IF @ + delta < 0 THEN 0 ELSE @ + delta]
AddExpected(items, delta) ==
  LET Keep(x) == AddSurvives(x, delta)
      kept == SelectSeq(items, Keep)
  IN [i \in 1..Len(kept) |-> AddShifted(kept[i], delta)]

\* C5: add(subs, delta) leaves, in the original order, exactly the items for
\* which not (startAt + delta <= 0 and endAt + delta <= 0), each with endAt
\* shifted by delta and startAt = max(0, startAt + delta).
C5_AddResult ==
  last.op = "add" => subs.items = AddExpected(last.pre.items, last.args[1])

\* An item was removed during the pass and a later item survived.
C5_Witness ==
  /\ last.op = "add"
  /\ \E i, j \in 1..Len(last.pre.items) :
       /\ i < j
       /\ ~AddSurvives(last.pre.items[i], last.args[1])
       /\ AddSurvives(last.pre.items[j], last.args[1])
       /\ last.pre.items[j].startAt + last.args[1] < 0

IsSpan(item, s, e) == item.startAt = s /\ item.endAt = e

\* C6 as stated: add(subs, -2000) drops an item [1000, 3000) and leaves an
\* item [1000, 5000) as [0, 3000).
C6_AsStated ==
  (last.op = "add" /\ last.args = <<-2000>>) =>
    \A i \in 1..Len(last.pre.items) :
      /\ IsSpan(last.pre.items[i], 1000, 3000) =>
           ~\E j \in 1..Len(subs.items) : subs.items[j].index = last.pre.items[i].index
      /\ IsSpan(last.pre.items[i], 1000, 5000) =>
           \E j \in 1..Len(subs.items) :
             subs.items[j] = [last.pre.items[i] EXCEPT !.startAt = 0, !.endAt = 3000]

\* C6 amended: add(subs, -2000) leaves an item [1000, 3000) as [0, 1000) and
\* an item [1000, 5000) as [0, 3000).
C6_Amended ==
  (last.op = "add" /\ last.args = <<-2000>>) =>
    \A i \in 1..Len(last.pre.items) :
      /\ IsSpan(last.pre.items[i], 1000, 3000) =>
           \E j \in 1..Len(subs.items) :
             subs.items[j] = [last.pre.items[i] EXCEPT !.startAt = 0, !.endAt = 1000]
      /\ IsSpan(last.pre.items[i], 1000, 5000) =>
           \E j \in 1..Len(subs.items) :
             subs.items[j] = [last.pre.items[i] EXCEPT !.startAt = 0, !.endAt = 3000]

C6_Witness ==
  /\ last.op = "add" /\ last.args = <<-2000>>
  /\ \E i, j \in 1..Len(last.pre.items) :
       IsSpan(last.pre.items[i], 1000, 3000) /\ IsSpan(last.pre.items[j], 1000, 5000)

\* No item spans a multiple of w.
SpansBoundary(item, w) ==
  \E k \in 0..(item.endAt \div w) : item.startAt < k * w /\ k * w < item.endAt

\* C7: after fragment(subs, w), w >= 1, on items with 0 <= startAt <= endAt
\* (overlapping or not, the last item not necessarily the one ending last),
\* no item spans a multiple of w, and the items are sorted by startAt.
C7_FragmentNetEffect ==
  (last.op = "fragment" /\ last.args[1] >= 1 /\ WellFormed(last.pre.items)) =>
    /\ \A i \in 1..Len(subs.items) : ~SpansBoundary(subs.items[i], last.args[1])
    /\ IsSorted(subs.items)

\* C8: fragment then unfragment of one item [s, e), s < e, gives back one
\* item with the same startAt, endAt and rendered text.
C8_UnfragmentInvertsFragment ==
  (/\ last.op = "unfragment" /\ prev.op = "fragment"
   /\ Len(prev.pre.items) = 1
   /\ 0 <= prev.pre.items[1].startAt
   /\ prev.pre.items[1].startAt < prev.pre.items[1].endAt
   /\ prev.args[1] >= 1) =>
    /\ Len(subs.items) = 1
    /\ subs.items[1].startAt = prev.pre.items[1].startAt
    /\ subs.items[1].endAt = prev.pre.items[1].endAt
    /\ itemToString(subs.items[1]) = itemToString(prev.pre.items[1])

\* The item was cut into three or more fragments, then put together again.
C8_Witness ==
  /\ last.op = "unfragment" /\ prev.op = "fragment"
  /\ Len(prev.pre.items) = 1
  /\ Len(last.pre.items) >= 3
  /\ Len(subs.items) = 1

\* The items of a sequence that start at t, in order.
StartingAt(items, t) == LET At(x) == x.startAt = t IN SelectSeq(items, At)

\* C9: order leaves a permutation of its input sorted ascending by startAt,
\* items with equal startAt in their input order; ordering again changes
\* nothing.
C9_OrderStableIdempotent ==
  /\ last.op = "order" =>
       /\ IsSorted(subs.items)
       /\ Len(subs.items) = Len(last.pre.items)
       /\ \A i \in 1..Len(last.pre.items) :
            StartingAt(subs.items, last.pre.items[i].startAt)
              = StartingAt(last.pre.items, last.pre.items[i].startAt)
  /\ (last.op = "order" /\ prev.op = "order") => subs.items = last.pre.items

\* order moved an item past others and kept two different items with the
\* same startAt in their input order.
C9_Witness ==
  /\ last.op = "order" /\ prev.op = "init"
  /\ subs.items # last.pre.items
  /\ \E i, j \in 1..Len(last.pre.items) :
       /\ i < j
       /\ last.pre.items[i].startAt = last.pre.items[j].startAt
       /\ last.pre.items[i] # last.pre.items[j]

\* Every style or region id referenced from an item, a line item or a
\* registered region is a key of the corresponding mapping.
NoDangling(s) ==
  /\ ItemRegionIds(s.items) \subseteq DOMAIN s.regions
  /\ ItemStyleIds(s.items) \cup LineItemStyleIds(s.items) \subseteq DOMAIN s.styles
  /\ RegionStyleIds(s.regions, DOMAIN s.regions) \subseteq DOMAIN s.styles

Triples(items) ==
  [i \in 1..Len(items) |-> <<items[i].startAt, items[i].endAt, itemToString(items[i])>>]

\* C1: when readFromSRT returned a non-empty Subtitles S, reading the text
\* that writeToSRT(S) returns succeeds and gives items with the same
\* (startAt, endAt, rendered text), position by position.
C1_SRTRoundTrip ==
  (last.op = "readFromSRT" /\ prev.op = "writeToSRT" /\ Len(last.pre.items) > 0) =>
    /\ thrown = Undefined
    /\ Triples(subs.items) = Triples(last.pre.items)

\* C2: when readFromWebVTT returned a non-empty Subtitles S (cue text with
\* inline tags, voice tags or inline timestamps included), reading the text
\* that writeToWebVTT(S) returns succeeds and gives items with the same
\* (startAt, endAt, rendered text), position by position.
C2_WebVTTRoundTrip ==
  (last.op = "readFromWebVTT" /\ prev.op = "writeToWebVTT" /\ Len(last.pre.items) > 0) =>
    /\ thrown = Undefined
    /\ Len(subs.items) = Len(last.pre.items)
    /\ \A i \in 1..Len(subs.items) :
         /\ subs.items[i].startAt = last.pre.items[i].startAt
         /\ subs.items[i].endAt = last.pre.items[i].endAt
         /\ itemToString(subs.items[i]) = itemToString(last.pre.items[i])

\* C3: parseDuration(formatDuration(d, sep, digits), sep, digits) = d for
\* 0 <= d < 24*3600*1000, sep "," or ".", digits 2 or 3.
C3_DurationInverseLaw ==
  (/\ last.op = "parseDuration" /\ prev.op = "formatDuration"
   /\ last.args[2] = prev.args[2] /\ last.args[3] = prev.args[3]
   /\ 0 <= prev.args[1] /\ prev.args[1] < 24 * 3600 * 1000
   /\ prev.args[2] \in {",", "."} /\ prev.args[3] \in {2, 3}) =>
    /\ thrown = Undefined
    /\ time = prev.args[1]

\* The style and region ids that s still references.
ReferencedStyleIds(s) ==
  ItemStyleIds(s.items) \cup LineItemStyleIds(s.items)
    \cup RegionStyleIds(s.regions, DOMAIN s.regions)

OnlyReferenced(s) ==
  /\ DOMAIN s.styles \subseteq ReferencedStyleIds(s)
  /\ DOMAIN s.regions \subseteq ItemRegionIds(s.items)

\* C11 as stated: after optimize every key of the styles mapping is
\* referenced by an item, a line item or a retained region and every key of
\* the regions mapping by an item, whatever the length of the item sequence
\* that remains.
C11_AsStated == last.op = "optimize" => OnlyReferenced(subs)

\* C11 amended: after optimize of a non-empty item sequence every key of the
\* styles mapping is referenced by an item, a line item or a retained region
\* and every key of the regions mapping by an item; optimize of an empty
\* item sequence changes nothing.
C11_Amended ==
  last.op = "optimize" =>
    IF Len(last.pre.items) > 0 THEN OnlyReferenced(subs) ELSE subs = last.pre

\* add dropped the only item that referenced a style or a region and kept
\* another item; optimize then removed that style or region.
C11_Witness ==
  /\ last.op = "optimize" /\ prev.op = "add"
  /\ Len(subs.items) > 0 /\ Len(subs.items) < Len(prev.pre.items)
  /\ \E id \in ItemStyleIds(prev.pre.items) \cup ItemRegionIds(prev.pre.items) :
       /\ id \in DOMAIN prev.pre.styles \cup DOMAIN prev.pre.regions
       /\ id \notin DOMAIN subs.styles \cup DOMAIN subs.regions

(***************************************************************************)
(* SpecLinear: applyLinearCorrection applied once, with two distinct       *)
(* reference points or with actual1 = actual2.                             *)
(***************************************************************************)
\* <<actual1, desired1, actual2, desired2>>
LinearCorrections ==
  {<<1000, 2000, 5000, 7000>>, <<1000, 4000, 4000, 3000>>, <<1000, 2000, 7000, 1000>>,
   <<0, 0, 3000, 1000>>, <<2000, 0, 0, 2000>>,
   <<1000, 2000, 1000, 2000>>, <<1000, 2000, 1000, 3000>>, <<-1000, 0, -1000, 1000>>}

NextLinear == \E c \in LinearCorrections : DoApplyLinearCorrection(c[1], c[2], c[3], c[4])

SpecLinear == Init /\ [][NextLinear]_vars

\* C12: after applyLinearCorrection with actual1 # actual2 every item
\* timestamp t is floor(a * t + b) in exact arithmetic, a =
\* (desired2 - desired1) / (actual2 - actual1), b = desired1 - a * actual1;
\* so a timestamp equal to actual1 becomes desired1 and one equal to actual2
\* becomes desired2.
C12_AffineFloor ==
  (last.op = "applyLinearCorrection" /\ last.args[1] # last.args[3]) =>
    \A i \in 1..Len(subs.items) :
      /\ subs.items[i].startAt =
           LinearMap(last.pre.items[i].startAt,
                     last.args[1], last.args[2], last.args[3], last.args[4])
      /\ subs.items[i].endAt =
           LinearMap(last.pre.items[i].endAt,
                     last.args[1], last.args[2], last.args[3], last.args[4])

\* The numbers applyLinearCorrection stored in the items: <<n>>, NaN,
\* Infinity or NegativeInfinity for each startAt and endAt.
StoredTimestamps ==
  [i \in 1..Len(last.pre.items) |->
     <<correctedTimestamp(last.pre.items[i].startAt,
                          last.args[1], last.args[2], last.args[3], last.args[4]),
       correctedTimestamp(last.pre.items[i].endAt,
                          last.args[1], last.args[2], last.args[3], last.args[4])>>]

\* C13: applyLinearCorrection with actual1 = actual2 raises an error,
\* leaves every startAt and endAt as it was and stores no NaN or infinity.
C13_FailsFast ==
  (last.op = "applyLinearCorrection" /\ last.args[1] = last.args[3]) =>
    /\ thrown # Undefined
    /\ \A i \in 1..Len(last.pre.items) :
         /\ StoredTimestamps[i][1] = <<last.pre.items[i].startAt>>
         /\ StoredTimestamps[i][2] = <<last.pre.items[i].endAt>>

\* C13, its last part alone: no NaN or infinity is stored in an item.
C13_NoNonFinite ==
  last.op = "applyLinearCorrection" =>
    \A i \in 1..Len(last.pre.items) :
      Len(StoredTimestamps[i][1]) = 1 /\ Len(StoredTimestamps[i][2]) = 1

\* The number of items that precede the first item with startAt >= target.
PrefixBefore(items, target) ==
  IF \E i \in 1..Len(items) : items[i].startAt >= target
  THEN (CHOOSE i \in 1..Len(items) :
          /\ items[i].startAt >= target
          /\ \A j \in 1..(i - 1) : items[j].startAt < target) - 1
  ELSE Len(items)

\* C14: forceDuration(subs, target, false) with getDuration(subs) > target
\* leaves exactly the items that precede the first item with startAt >=
\* target, each with its startAt and with endAt = min(old endAt, target), so
\* that no item has startAt >= target or endAt > target; with
\* getDuration(subs) = target it changes nothing.
C14_ForceDurationShrinks ==
  (last.op = "forceDuration" /\ last.args[2] = FALSE) =>
    /\ getDuration(last.pre) > last.args[1] =>
         /\ subs.items =
              [i \in 1..PrefixBefore(last.pre.items, last.args[1]) |->
                 [last.pre.items[i] EXCEPT
                    !.endAt = IF @ < last.args[1] THEN @ ELSE last.args[1]]]
         /\ \A i \in 1..Len(subs.items) :
              /\ subs.items[i].startAt < last.args[1]
              /\ subs.items[i].endAt <= last.args[1]
    /\ getDuration(last.pre) = last.args[1] => subs = last.pre

\* forceDuration without a dummy item dropped the second of two items and
\* clipped the first.
C14_Witness ==
  /\ last.op = "forceDuration" /\ last.args[2] = FALSE
  /\ getDuration(last.pre) > last.args[1]
  /\ Len(last.pre.items) = 2 /\ Len(subs.items) = 1
  /\ subs.items[1].endAt < last.pre.items[1].endAt

\* C15: a merge step leaves in subs.items the stable ascending-by-startAt
\* sort of the old subs.items followed by other.items, makes the key sets of
\* subs.regions and subs.styles the unions of both key sets, keeps the entry
\* subs had for every id that was a key of subs, and leaves other unchanged.
C15_MergeEffect ==
  [][(last'.op = "merge" /\ steps' = steps + 1) =>
       /\ IsSorted(subs'.items)
       /\ Len(subs'.items) = Len(subs.items) + Len(other.items)
       /\ \A x \in Range(subs.items \o other.items) :
            StartingAt(subs'.items, x.startAt)
              = StartingAt(subs.items \o other.items, x.startAt)
       /\ DOMAIN subs'.regions = DOMAIN subs.regions \cup DOMAIN other.regions
       /\ DOMAIN subs'.styles = DOMAIN subs.styles \cup DOMAIN other.styles
       /\ \A id \in DOMAIN subs.regions : subs'.regions[id] = subs.regions[id]
       /\ \A id \in DOMAIN subs.styles : subs'.styles[id] = subs.styles[id]
       /\ other' = other]_vars

\* merge put an item of other before an item of subs, kept the region subs
\* had under an id that other maps to a different region, and took a style
\* from other.
C15_Witness ==
  /\ last.op = "merge"
  /\ Len(last.pre.items) >= 1
  /\ subs.items[1] = other.items[1]
  /\ \E id \in DOMAIN last.pre.regions \cap DOMAIN other.regions :
       other.regions[id] # last.pre.regions[id] /\ subs.regions[id] = last.pre.regions[id]
  /\ \E id \in DOMAIN other.styles \ DOMAIN last.pre.styles : id \in DOMAIN subs.styles

(***************************************************************************)
(* SpecString: the entry points readFromString and writeToString and the   *)
(* two writers, applied to the README texts and to an empty or a one-item  *)
(* sequence.                                                               *)
(***************************************************************************)
Formats == {"srt", "SRT", "webvtt", "WebVTT", "vtt", "ttml", "txt", ""}

StringTexts ==
  {"1\n00:01:00,000 --> 00:02:00,000\nHello World",
   "WEBVTT\n\n1\n00:01:00.000 --> 00:02:00.000\nHello World",
   ""}

StringItems == {<<>>, <<Item(60000, 120000, TextLines("Hello World"), Undefined, Undefined)>>}

InitString ==
  \E t \in StringTexts, items \in StringItems :
    /\ subs = PlainSubs(items)
    /\ other = PlainSubs(<<>>)
    /\ last = [op |-> "init", args |-> <<>>, pre |-> PlainSubs(items)]
    /\ prev = [op |-> "init", args |-> <<>>, pre |-> PlainSubs(items)]
    /\ steps = 0
    /\ limit = 2
    /\ data = t
    /\ time = 0
    /\ thrown = Undefined
    /\ loop = Undefined
    /\ scanner = Undefined

NextString ==
  \/ \E format \in Formats : DoReadFromString(format)
  \/ \E format \in Formats : DoWriteToString(format)
  \/ DoWriteToSRT
  \/ DoWriteToWebVTT

SpecString == InitString /\ [][NextString]_vars

\* What a reader or a writer left behind: the error it threw, or the value
\* it returned.
Outcome(r) == IF r.thrown THEN Ref(ErrorOf(r)) ELSE Undefined

\* C16: readFromString and writeToString dispatch to the SRT codec for the
\* format srt and to the WebVTT codec for the format webvtt, in any letter
\* case, and throw InvalidExtensionError only for another format name.
C16_EntryPointsDispatch ==
  /\ last.op = "readFromString" =>
       /\ toLowerCase(last.args[2]) = "srt" =>
            /\ thrown = Outcome(readFromSRT(last.args[1]))
            /\ thrown = Undefined => subs = readFromSRT(last.args[1]).value
       /\ toLowerCase(last.args[2]) = "webvtt" =>
            /\ thrown = Outcome(readFromWebVTT(last.args[1]))
            /\ thrown = Undefined => subs = readFromWebVTT(last.args[1]).value
       /\ thrown = Ref(ErrorOf(InvalidExtensionError)) =>
            toLowerCase(last.args[2]) \notin {"srt", "webvtt"}
  /\ (last.op = "writeToString" /\ Len(last.pre.items) > 0) =>
       /\ toLowerCase(last.args[1]) = "srt" =>
            /\ thrown = Outcome(writeToSRT(last.pre))
            /\ thrown = Undefined => data = writeToSRT(last.pre).value
       /\ toLowerCase(last.args[1]) = "webvtt" =>
            /\ thrown = Outcome(writeToWebVTT(last.pre))
            /\ thrown = Undefined => data = writeToWebVTT(last.pre).value
       /\ thrown = Ref(ErrorOf(InvalidExtensionError)) =>
            toLowerCase(last.args[1]) \notin {"srt", "webvtt"}

\* C17: writeToString with any format name, writeToSRT and writeToWebVTT,
\* called with an empty item sequence, throw NoSubtitlesToWriteError and
\* return no text.
C17_EmptyWriteFails ==
  (last.op \in {"writeToString", "writeToSRT", "writeToWebVTT"}
     /\ Len(last.pre.items) = 0) =>
    thrown = Ref(ErrorOf(NoSubtitlesToWriteError))

\* C17 for writeToString alone.
C17_EmptyWriteToStringFails ==
  (last.op = "writeToString" /\ Len(last.pre.items) = 0) =>
    thrown = Ref(ErrorOf(NoSubtitlesToWriteError))

\* Every write of an empty sequence throws an error whose message is that
\* of NoSubtitlesToWriteError.
C17_EmptyWriteThrows ==
  (last.op \in {"writeToString", "writeToSRT", "writeToWebVTT"}
     /\ Len(last.pre.items) = 0) =>
    thrown # Undefined /\ thrown[1].message = NoSubtitlesToWriteError.message

(***************************************************************************)
(* SpecBlocks: readFromSRT applied to a text of 1..MaxBlocks blocks, each  *)
(* an index line, a boundary line and 1..MaxBlockLines text lines, with    *)
(* one or two blank lines between blocks and with or without a trailing    *)
(* newline.  The init record keeps the blocks and the separator of the text.  *)
(***************************************************************************)
\* <<boundary line, startAt, endAt>>
BlockBoundaries ==
  {<<"00:00:00,000 --> 01:02:03,004", 0, 3723004>>,
   <<"00:01:00,000 --> 00:02:00,000", 60000, 120000>>}

\* <<text line, the text it shows>>
BlockTexts ==
  {<<"Hello World", "Hello World">>, <<"42", "42">>, <<"<i>R &amp; B</i> there", "R & B there">>}

Blocks ==
  {[boundary |-> b, texts |-> t] :
     b \in BlockBoundaries, t \in SeqsUpTo(BlockTexts, MaxBlockLines) \ {<<>>}}

\* The number on the index line of the k-th block: 1, 3, 5, ...
BlockIndex(k) == 2 * k - 1

BlockLines(block, k) ==
  <<toString(BlockIndex(k)), block.boundary[1]>> \o [j \in 1..Len(block.texts) |-> block.texts[j][1]]

RECURSIVE BlocksLines(_, _, _)
BlocksLines(blocks, k, separator) ==
  IF k > Len(blocks) THEN <<>>
  ELSE BlockLines(blocks[k], k)
         \o (IF k < Len(blocks) THEN separator ELSE <<>>)
         \o BlocksLines(blocks, k + 1, separator)

BlocksText(blocks, separator, trailing) ==
  join(BlocksLines(blocks, 1, separator), "\n") \o trailing

InitBlocks ==
  \E blocks \in SeqsUpTo(Blocks, MaxBlocks) \ {<<>>},
     separator \in {<<"">>, <<"", "">>}, trailing \in {"", "\n"} :
    /\ Len(blocks) = 1 => separator = <<"">>
    /\ subs = PlainSubs(<<>>)
    /\ other = PlainSubs(<<>>)
    /\ last = [op |-> "init", args |-> <<blocks, separator>>, pre |-> PlainSubs(<<>>)]
    /\ prev = [op |-> "init", args |-> <<blocks, separator>>, pre |-> PlainSubs(<<>>)]
    /\ steps = 0
    /\ limit = 1
    /\ data = BlocksText(blocks, separator, trailing)
    /\ time = 0
    /\ thrown = Undefined
    /\ loop = Undefined
    /\ scanner = Undefined

NextBlocks == DoReadFromSRT

SpecBlocks == InitBlocks /\ [][NextBlocks]_vars

MalformedBoundaries == {"xx --> 00:00:02.000", "00:00:01.000 --> yy"}

BodyLines == {"", "1", "Hello", "00:00:01.000 --> 00:00:02.000"} \cup MalformedBoundaries

LeadingLines == {<<>>, <<"">>, <<"junk">>}

InitMalformed ==
  \E leading \in LeadingLines, body \in SeqsUpTo(BodyLines, MaxBodyLines) :
    /\ subs = PlainSubs(<<>>)
    /\ other = PlainSubs(<<>>)
    /\ last = [op |-> "init", args |-> <<leading \o <<"WEBVTT">> \o body>>,
               pre |-> PlainSubs(<<>>)]
    /\ prev = last
    /\ steps = 0
    /\ limit = 1
    /\ data = join(leading \o <<"WEBVTT">> \o body, "\n")
    /\ time = 0
    /\ thrown = Undefined
    /\ loop = Undefined
    /\ scanner = Undefined

NextMalformed == DoReadFromSRT \/ DoReadFromWebVTT

SpecMalformed == InitMalformed /\ [][NextMalformed]_vars

\* The 1-based number of the first line that is a malformed boundary line,
\* or 0.
FirstMalformed(lines) ==
  IF \E k \in 1..Len(lines) : lines[k] \in MalformedBoundaries
  THEN CHOOSE k \in 1..Len(lines) :
         /\ lines[k] \in MalformedBoundaries
         /\ \A j \in 1..(k - 1) : lines[j] \notin MalformedBoundaries
  ELSE 0

\* C19: when a boundary line of the input has a start or end timestamp
\* that does not parse, readFromSRT and readFromWebVTT throw, return no
\* Subtitles value, and the error names the 1-based number of that line in
\* the input text, whatever lines precede it.
C19_MalformedCueAborts ==
  (last.op \in {"readFromSRT", "readFromWebVTT"} /\ FirstMalformed(prev.args[1]) > 0) =>
    /\ thrown # Undefined
    /\ subs = last.pre
    /\ startsWith(thrown[1].message,
                  "Line " \o toString(FirstMalformed(prev.args[1])) \o ":")

\* C19 for readFromSRT alone.
C19_MalformedSRTCueAborts ==
  (last.op = "readFromSRT" /\ FirstMalformed(prev.args[1]) > 0) =>
    /\ thrown # Undefined
    /\ subs = last.pre
    /\ startsWith(thrown[1].message,
                  "Line " \o toString(FirstMalformed(prev.args[1])) \o ":")

\* C19 for readFromWebVTT when no empty line precedes the header line.
C19_MalformedVTTCueAborts ==
  (/\ last.op = "readFromWebVTT" /\ FirstMalformed(prev.args[1]) > 0
   /\ prev.args[1][1] # "") =>
    /\ thrown # Undefined
    /\ subs = last.pre
    /\ startsWith(thrown[1].message,
                  "Line " \o toString(FirstMalformed(prev.args[1])) \o ":")

MaxStyleLines == 2

\* <<text line, the attribute of its tag, what the tag does>>
StyleTexts ==
  {<<"<b>one", "srtBold", "open">>, <<"<i>uno", "srtItalics", "open">>,
   <<"two", "", "keep">>, <<"three</b>", "srtBold", "close">>}

StyleBlocks ==
  {[boundary |-> b, texts |-> t] :
     b \in BlockBoundaries, t \in SeqsUpTo(StyleTexts, MaxStyleLines) \ {<<>>}}

InitStyle ==
  \E blocks \in SeqsUpTo(StyleBlocks, MaxBlocks) \ {<<>>} :
    /\ subs = PlainSubs(<<>>)
    /\ other = PlainSubs(<<>>)
    /\ last = [op |-> "init", args |-> <<blocks>>, pre |-> PlainSubs(<<>>)]
    /\ prev = [op |-> "init", args |-> <<blocks>>, pre |-> PlainSubs(<<>>)]
    /\ steps = 0
    /\ limit = 1
    /\ data = BlocksText(blocks, <<"">>, "")
    /\ time = 0
    /\ thrown = Undefined
    /\ loop = Undefined
    /\ scanner = Undefined

NextStyle == DoReadFromSRT

SpecStyle == InitStyle /\ [][NextStyle]_vars

\* The attributes a line item is rendered with.
ShownStyle(lineItem) ==
  {a \in {"srtBold", "srtItalics"} :
     lineItem.inlineStyle # Undefined /\ lineItem.inlineStyle[1][a]}

\* The running style of a cue after its first j text lines, as the
\* sentence describes it: empty at the boundary line, a tag left open adds
\* its attribute, a closing tag removes it.
RECURSIVE RunningStyle(_, _)
RunningStyle(texts, j) ==
  IF j = 0 THEN {}
  ELSE CASE texts[j][3] = "open" -> RunningStyle(texts, j - 1) \cup {texts[j][2]}
         [] texts[j][3] = "close" -> RunningStyle(texts, j - 1) \ {texts[j][2]}
         [] OTHER -> RunningStyle(texts, j - 1)

\* The style of the text of line j: the text stands after an opening tag
\* and before a closing one.
StyleOfLine(texts, j) ==
  IF texts[j][3] = "open" THEN RunningStyle(texts, j) ELSE RunningStyle(texts, j - 1)

\* C21: the SRT running style is per cue: the text of every text line of a
\* cue is rendered with the attributes of the tags opened and not yet closed
\* on the lines of the same cue read so far, and with no attribute of an
\* earlier cue.
C21_RunningStylePerCue ==
  last.op = "readFromSRT" =>
    /\ thrown = Undefined
    /\ Len(subs.items) = Len(prev.args[1])
    /\ \A k \in 1..Len(subs.items) :
         /\ Len(subs.items[k].lines) = Len(prev.args[1][k].texts)
         /\ \A j \in 1..Len(subs.items[k].lines) :
              /\ Len(subs.items[k].lines[j].items) = 1
              /\ ShownStyle(subs.items[k].lines[j].items[1])
                   = StyleOfLine(prev.args[1][k].texts, j)

\* C21, the part about boundary lines: no attribute opened in one cue is
\* attached to text of a later cue, that is, every line item carries at
\* most the attributes that the lines of its own cue open.
C21_ResetAtBoundary ==
  last.op = "readFromSRT" =>
    /\ thrown = Undefined
    /\ Len(subs.items) = Len(prev.args[1])
    /\ \A k \in 1..Len(subs.items) :
         \A j \in 1..Len(subs.items[k].lines) :
           \A a \in ShownStyle(subs.items[k].lines[j].items[1]) :
             \E i \in 1..j : prev.args[1][k].texts[i] = <<prev.args[1][k].texts[i][1], a, "open">>

\* C21, within one line: a line that opens a tag shows its text with the
\* attribute of that tag.
C21_OpenedOnLine ==
  last.op = "readFromSRT" =>
    \A k \in 1..Len(subs.items) :
      \A j \in 1..Len(subs.items[k].lines) :
        prev.args[1][k].texts[j][3] = "open" =>
          prev.args[1][k].texts[j][2] \in ShownStyle(subs.items[k].lines[j].items[1])

(***************************************************************************)
(* SpecUnfragment: unfragment applied once to up to MaxUnfragmentItems     *)
(* items of two texts, in any order, endAt before startAt included.        *)
(***************************************************************************)
MaxUnfragmentTick == 2
MaxUnfragmentItems == 3

UnfragmentItems == AnyItems(Seconds(MaxUnfragmentTick), {"a", "b"})

InitUnfragment ==
  \E items \in SeqsUpTo(UnfragmentItems, MaxUnfragmentItems) :
    InitRun(PlainSubs(items), PlainSubs(<<>>), 1)

NextUnfragment == DoUnfragment

SpecUnfragment == InitUnfragment /\ [][NextUnfragment]_vars

\* The item covers the instant t.
Covers(item, t) == item.startAt <= t /\ t < item.endAt

\* C22: after unfragment the items are sorted ascending by startAt, an item
\* ends before every later item of equal rendered text starts, every
\* instant that an item covered is covered by an item of the same text, and
\* every item left has the text and the startAt of an item of the input.
\* The timestamps are whole seconds, so an item covers a whole second or
\* none of it and the instants checked are the whole seconds.
C22_UnfragmentPostcondition ==
  last.op = "unfragment" =>
    /\ IsSorted(subs.items)
    /\ \A i \in 1..Len(subs.items) : \A j \in (i + 1)..Len(subs.items) :
         itemToString(subs.items[i]) = itemToString(subs.items[j])
           => subs.items[i].endAt < subs.items[j].startAt
    /\ \A i \in 1..Len(last.pre.items) : \A t \in Seconds(MaxUnfragmentTick + 1) :
         Covers(last.pre.items[i], t) =>
           \E k \in 1..Len(subs.items) :
             /\ itemToString(subs.items[k]) = itemToString(last.pre.items[i])
             /\ Covers(subs.items[k], t)
    /\ Len(subs.items) <= Len(last.pre.items)
    /\ \A k \in 1..Len(subs.items) :
         \E i \in 1..Len(last.pre.items) :
           /\ last.pre.items[i].startAt = subs.items[k].startAt
           /\ last.pre.items[i].lines = subs.items[k].lines
           /\ last.pre.items[i].endAt <= subs.items[k].endAt

\* Three items given out of order, an item of another text between two
\* overlapping items of equal text: the later one was removed and the
\* earlier one extended to its end.
C22_Witness ==
  /\ last.op = "unfragment"
  /\ Len(last.pre.items) = 3
  /\ ~IsSorted(last.pre.items)
  /\ Len(subs.items) = 2
  /\ itemToString(subs.items[1]) # itemToString(subs.items[2])
  /\ \E k \in 1..2 : \A i \in 1..3 :
       last.pre.items[i].startAt = subs.items[k].startAt
         => last.pre.items[i].endAt < subs.items[k].endAt

(***************************************************************************)
(* SpecFragmentLoop: one call of fragment, run one iteration of its while  *)
(* loop at a time.  A running call makes progress (weak fairness of the    *)
(* iteration and of the return); nothing obliges the caller to call.       *)
(***************************************************************************)
MaxLoopTick == 2
MaxLoopItems == 2

LoopItems == PlainItems(Seconds(MaxLoopTick), {"a"})
LoopWindows == {-1000, 0, 1000, 2000}

\* fragmentStart and fragmentEnd are not followed below this value: with a
\* negative fragmentDuration they decrease for ever, and below every
\* timestamp of the items an iteration changes no item.
LoopFloor == 0 - 1000 * (MaxLoopTick + 2)

InitFragmentLoop ==
  \E items \in SeqsUpTo(LoopItems, MaxLoopItems) :
    InitRun(PlainSubs(items), PlainSubs(<<>>), 1)

\* subtitles.ts 116-123: the early return, or the locals before the loop.
FragmentCall(fragmentDuration) ==
  /\ steps < limit /\ loop = Undefined
  /\ IF Len(subs.items) = 0
     THEN /\ last' = [op |-> "fragment", args |-> <<fragmentDuration>>, pre |-> subs]
          /\ prev' = last
          /\ steps' = steps + 1
          /\ loop' = Undefined
     ELSE /\ loop' = Ref([fragmentStart |-> 0, fragmentEnd |-> fragmentDuration,
                          fragmentDuration |-> fragmentDuration,
                          lastItemEnd |-> subs.items[Len(subs.items)].endAt,
                          pre |-> subs])
          /\ UNCHANGED <<last, prev, steps>>
  /\ UNCHANGED <<subs, other, limit, data, time, thrown, scanner>>

\* subtitles.ts 125-152: one iteration of the while loop.
FragmentIteration ==
  /\ loop # Undefined
  /\ loop[1].fragmentStart < loop[1].lastItemEnd
  /\ subs' = [subs EXCEPT !.items =
                fragmentPass(subs.items, 1, loop[1].fragmentStart, loop[1].fragmentEnd)]
  /\ loop' = IF loop[1].fragmentStart + loop[1].fragmentDuration < LoopFloor
             THEN loop
             ELSE Ref([loop[1] EXCEPT
                         !.fragmentStart = @ + loop[1].fragmentDuration,
                         !.fragmentEnd = @ + loop[1].fragmentDuration])
  /\ UNCHANGED <<other, last, prev, steps, limit, data, time, thrown, scanner>>

\* subtitles.ts 125, 154-156: the loop condition fails, order, return.
FragmentReturn ==
  /\ loop # Undefined
  /\ ~(loop[1].fragmentStart < loop[1].lastItemEnd)
  /\ subs' = order(subs)
  /\ last' = [op |-> "fragment", args |-> <<loop[1].fragmentDuration>>, pre |-> loop[1].pre]
  /\ prev' = last
  /\ steps' = steps + 1
  /\ loop' = Undefined
  /\ UNCHANGED <<other, limit, data, time, thrown, scanner>>

NextFragmentLoop ==
  \/ \E w \in LoopWindows : FragmentCall(w)
  \/ FragmentIteration
  \/ FragmentReturn

SpecFragmentLoop ==
  /\ InitFragmentLoop
  /\ [][NextFragmentLoop]_vars
  /\ WF_vars(FragmentIteration)
  /\ WF_vars(FragmentReturn)

\* C23: fragment terminates on every input: whatever the items and the
\* integer windowSize, a call that entered the window loop leaves it and
\* returns.
C23_FragmentTerminates == (loop # Undefined) ~> (loop = Undefined)

\* C23 for the window sizes of at least 1: the loop ends and the call
\* returns.
C23_PositiveWindowTerminates ==
  (loop # Undefined /\ loop[1].fragmentDuration >= 1) ~> (loop = Undefined)

\* The run of the loop one iteration at a time returns what fragment
\* computes.
C23_LoopComputesFragment ==
  (last.op = "fragment" /\ loop = Undefined) => subs = fragment(last.pre, last.args[1])

(***************************************************************************)
(* SpecFragment: fragment applied once to up to MaxFragmentItems items of  *)
(* two texts in any order, endAt before startAt included, with windows     *)
(* that are and are not a whole number of seconds.                         *)
(***************************************************************************)
MaxFragmentTick == 3
MaxFragmentItems == 2

FragmentItems == AnyItems(Seconds(MaxFragmentTick), {"a", "b"})
FragmentWindows == {1000, 1500, 2000, 3000}

InitFragment ==
  \E items \in SeqsUpTo(FragmentItems, MaxFragmentItems) :
    InitRun(PlainSubs(items), PlainSubs(<<>>), 1)

NextFragment == \E w \in FragmentWindows : DoFragment(w)

SpecFragment == InitFragment /\ [][NextFragment]_vars

\* The timestamps and the window boundaries are multiples of 500 ms, so an
\* item covers a whole half second or none of it.
Instants == {500 * k : k \in 0..(2 * MaxFragmentTick + 1)}

\* The number of items of rendered text x that cover the instant t.
CoverCount(items, x, t) ==
  Cardinality({i \in 1..Len(items) : itemToString(items[i]) = x /\ Covers(items[i], t)})

RECURSIVE TotalLength(_)
TotalLength(items) ==
  IF items = <<>> THEN 0
  ELSE (Head(items).endAt - Head(items).startAt) + TotalLength(Tail(items))

\* C24: fragment with a window of at least 1 leaves, for every rendered text
\* and every instant, the number of items of that text covering that instant
\* unchanged; so the sum of endAt - startAt over the items is unchanged, and
\* the number of items does not decrease.
C24_FragmentConservesCoverage ==
  (last.op = "fragment" /\ last.args[1] >= 1) =>
    /\ \A x \in {"a", "b"}, t \in Instants :
         CoverCount(subs.items, x, t) = CoverCount(last.pre.items, x, t)
    /\ TotalLength(subs.items) = TotalLength(last.pre.items)
    /\ Len(subs.items) >= Len(last.pre.items)

\* Two items of different texts given out of order were both split by a
\* window of a second and a half.
C24_Witness ==
  /\ last.op = "fragment"
  /\ last.args[1] = 1500
  /\ Len(last.pre.items) = 2
  /\ ~IsSorted(last.pre.items)
  /\ itemToString(last.pre.items[1]) # itemToString(last.pre.items[2])
  /\ Len(subs.items) >= 4
  /\ \E i \in 1..Len(subs.items) : subs.items[i].endAt = 1500

(***************************************************************************)
(* SpecWellFormed: sequences of up to MaxWellFormedSteps operations that   *)
(* write timestamps or reorder items, starting from items with             *)
(* 0 <= startAt <= endAt.                                                   *)
(***************************************************************************)
MaxWellFormedTick == 2
MaxWellFormedItems == 2
MaxWellFormedSteps == 3

WellFormedItems == PlainItems(Seconds(MaxWellFormedTick), {"a", "b"})

InitWellFormed ==
  \E items \in SeqsUpTo(WellFormedItems, MaxWellFormedItems), o \in Others :
    InitRun(PlainSubs(items), o, MaxWellFormedSteps)

NextWellFormed ==
  \/ \E d \in {-1000, 1000} : DoAdd(d)
  \/ \E t \in {0, 1000, 2000}, dummy \in BOOLEAN : DoForceDuration(t, dummy)
  \/ \E w \in {1000, 1500} : DoFragment(w)
  \/ DoUnfragment
  \/ DoOrder
  \/ DoMerge

SpecWellFormed == InitWellFormed /\ [][NextWellFormed]_vars

\* C25: starting from items with 0 <= startAt <= endAt, after any sequence
\* of add, fragment (window >= 1), unfragment, order, merge (with well-formed
\* items in the other value) and forceDuration (target >= 0, with or without
\* a dummy item) every item has startAt <= endAt.
C25_StartNotAfterEnd ==
  \A i \in 1..Len(subs.items) : subs.items[i].startAt <= subs.items[i].endAt

\* Three operations were applied, the last a forceDuration that clipped an
\* item which a fragment or a merge had left.
C25_Witness ==
  /\ steps = 3
  /\ last.op = "forceDuration"
  /\ prev.op \in {"fragment", "merge"}
  /\ Len(subs.items) >= 2
  /\ \E i \in 1..Len(subs.items) :
       /\ i <= Len(last.pre.items)
       /\ subs.items[i].endAt = last.args[1]
       /\ last.pre.items[i].endAt > last.args[1]

(***************************************************************************)
(* SpecForce: forceDuration applied once to up to MaxForceItems items with *)
(* non-negative timestamps, in any order, endAt before startAt included.   *)
(***************************************************************************)
MaxForceTick == 3
MaxForceItems == 3

ForceItems == AnyItems(Seconds(MaxForceTick), {"a"})

InitForce ==
  \E items \in SeqsUpTo(ForceItems, MaxForceItems) :
    InitRun(PlainSubs(items), PlainSubs(<<>>), 1)

NextForce == \E t \in Targets, dummy \in BOOLEAN : DoForceDuration(t, dummy)

SpecForce == InitForce /\ [][NextForce]_vars

\* C26: after forceDuration(subs, target, true), target >= 0, on items with
\* non-negative timestamps in any order, getDuration(subs) = target; the
\* items are those that forceDuration(subs, target, false) leaves, followed
\* by one item [target - 1, target] with the single text "..." exactly when
\* the duration of those is below target.
C26_DummyReachesTarget ==
  (last.op = "forceDuration" /\ last.args[2] = TRUE) =>
    /\ getDuration(subs) = last.args[1]
    /\ subs.items =
         With(forceDuration(last.pre, last.args[1], FALSE), LAMBDA without :
           IF getDuration(without) < last.args[1]
           THEN Append(without.items,
                       Item(last.args[1] - 1, last.args[1], TextLines("..."),
                            Undefined, Undefined))
           ELSE without.items)

\* Three items given out of order were cut to a shorter duration, items
\* dropped, and the dummy item appended after those left.
C26_Witness ==
  /\ last.op = "forceDuration" /\ last.args[2] = TRUE
  /\ Len(last.pre.items) = 3
  /\ ~IsSorted(last.pre.items)
  /\ getDuration(last.pre) > last.args[1]
  /\ Len(subs.items) = 2
  /\ subs.items[2].startAt = last.args[1] - 1
  /\ lineToString(subs.items[2].lines[1]) = "..."

(***************************************************************************)
(* SpecHeader: readFromWebVTT applied to a text of up to MaxHeaderLeading  *)
(* lines, the header line and a body.  The init record keeps the leading   *)
(* lines and the body.                                                     *)
(***************************************************************************)
MaxHeaderLeading == 2

HeaderLeadingLines ==
  {"", "junk", "7", "NOTE before", "00:00:01.000 --> 00:00:02.000", "STYLE"}

HeaderLines == {"WEBVTT", "WEBVTT - a title"}

HeaderBodies ==
  {<<>>,
   <<"", "00:00:03.000 --> 00:00:04.000", "Hi">>,
   <<"", "NOTE after", "", "2", "00:00:03.000 --> 00:00:04.000", "Hi", "there">>}

InitHeader ==
  \E leading \in SeqsUpTo(HeaderLeadingLines, MaxHeaderLeading),
     header \in HeaderLines, body \in HeaderBodies :
    /\ subs = PlainSubs(<<>>)
    /\ other = PlainSubs(<<>>)
    /\ last = [op |-> "init", args |-> <<leading, <<header>> \o body>>,
               pre |-> PlainSubs(<<>>)]
    /\ prev = last
    /\ steps = 0
    /\ limit = 1
    /\ data = join(leading \o <<header>> \o body, "\n")
    /\ time = 0
    /\ thrown = Undefined
    /\ loop = Undefined
    /\ scanner = Undefined

NextHeader == DoReadFromWebVTT

SpecHeader == InitHeader /\ [][NextHeader]_vars

\* What the read of the lines from the header line on returns.
FromHeader(lines) == readFromWebVTT(join(lines, "\n"))

\* C27: the result of readFromWebVTT depends only on the lines after the
\* first line that starts with WEBVTT: whatever lines come before the header,
\* blank or not, the read returns what it returns for the text that begins
\* at the header line.
C27_HeaderSkip ==
  last.op = "readFromWebVTT" =>
    /\ thrown = Undefined
    /\ ~FromHeader(prev.args[2]).thrown
    /\ subs = FromHeader(prev.args[2]).value

\* C27 for leading lines none of which is empty.
C27_NonEmptyLeadingSkipped ==
  (last.op = "readFromWebVTT" /\ \A i \in 1..Len(prev.args[1]) : prev.args[1][i] # "") =>
    /\ thrown = Undefined
    /\ subs = FromHeader(prev.args[2]).value

(***************************************************************************)
(* SpecCues: readFromWebVTT applied to a text of up to MaxCues cues, each  *)
(* with NOTE blocks and an identifier line before its boundary line.  The  *)
(* init record keeps the cues.                                             *)
(***************************************************************************)
MaxCues == 2

\* The NOTE blocks before a cue: each block is the lines of one comment.
CueNotes == {<<>>, <<<<"first">>>>, <<<<"first", "more">>>>, <<<<"first">>, <<"second">>>>}

\* <<identifier line, its value>>, or no identifier line.
CueIdentifiers == {<<>>, <<"7", 7>>, <<"12", 12>>}

\* tight: the first NOTE block follows the line before it without an empty
\* line.
Cues ==
  {[notes |-> n, identifier |-> i, tight |-> t] :
     n \in CueNotes, i \in CueIdentifiers, t \in BOOLEAN}

CueBoundary(k) ==
  IF k = 1 THEN "00:00:01.000 --> 00:00:02.000" ELSE "00:00:03.000 --> 00:00:04.500"

NoteLines(note) == <<"NOTE " \o note[1]>> \o Tail(note) \o <<"">>

RECURSIVE NotesLines(_)
NotesLines(notes) ==
  IF notes = <<>> THEN <<>> ELSE NoteLines(Head(notes)) \o NotesLines(Tail(notes))

RECURSIVE NotesComments(_)
NotesComments(notes) ==
  IF notes = <<>> THEN <<>> ELSE Head(notes) \o NotesComments(Tail(notes))

CueLines(cue, k) ==
  (IF cue.tight /\ cue.notes # <<>> THEN <<>> ELSE <<"">>)
    \o NotesLines(cue.notes)
    \o (IF cue.identifier = <<>> THEN <<>> ELSE <<cue.identifier[1]>>)
    \o <<CueBoundary(k), "Hi">>

RECURSIVE CuesLines(_, _)
CuesLines(cues, k) ==
  IF k > Len(cues) THEN <<>> ELSE CueLines(cues[k], k) \o CuesLines(cues, k + 1)

InitCues ==
  \E cues \in SeqsUpTo(Cues, MaxCues) \ {<<>>} :
    /\ subs = PlainSubs(<<>>)
    /\ other = PlainSubs(<<>>)
    /\ last = [op |-> "init", args |-> <<cues>>, pre |-> PlainSubs(<<>>)]
    /\ prev = last
    /\ steps = 0
    /\ limit = 1
    /\ data = join(<<"WEBVTT">> \o CuesLines(cues, 1), "\n")
    /\ time = 0
    /\ thrown = Undefined
    /\ loop = Undefined
    /\ scanner = Undefined

NextCues == DoReadFromWebVTT

SpecCues == InitCues /\ [][NextCues]_vars

\* C28: every cue receives exactly the comment lines of the NOTE blocks and
\* the identifier (read outside every block) that stand between the previous
\* boundary line, or the header, and its own boundary line: no comment and
\* no identifier of an earlier cue, and the index 0 when it has no
\* identifier line.
C28_PendingCommentsAndIndex ==
  last.op = "readFromWebVTT" =>
    /\ thrown = Undefined
    /\ Len(subs.items) = Len(prev.args[1])
    /\ \A k \in 1..Len(subs.items) :
         /\ subs.items[k].comments = NotesComments(prev.args[1][k].notes)
         /\ subs.items[k].index =
              <<IF prev.args[1][k].identifier = <<>> THEN 0
                ELSE prev.args[1][k].identifier[2]>>

\* Two cues were read: the first has two comments and the identifier 12, the
\* second has neither and got no comment and the index 0.
C28_Witness ==
  /\ last.op = "readFromWebVTT"
  /\ Len(subs.items) = 2
  /\ Len(subs.items[1].comments) = 2
  /\ subs.items[1].index = <<12>>
  /\ subs.items[2].comments = <<>>
  /\ subs.items[2].index = <<0>>
  /\ lineToString(subs.items[1].lines[1]) = "Hi"

(***************************************************************************)
(* SpecMap: readFromWebVTT, then writeToWebVTT, applied to a text with an  *)
(* X-TIMESTAMP-MAP line after the header line.  The init record keeps what *)
(* the line was built from.                                                *)
(***************************************************************************)
\* <<the text of the LOCAL value, its milliseconds>>
MapLocals ==
  {<<"00:00:00.000", 0>>, <<"00:00:01.500", 1500>>, <<"01:02:03.004", 3723004>>}

\* <<the text of the MPEGTS value, the number>>
MapTicks == {<<"0", 0>>, <<"900000", 900000>>}

\* <<the LOCAL key, the MPEGTS key>>
MapKeys == {<<"LOCAL", "MPEGTS">>, <<"local", "mpegts">>, <<"Local", "MpegTS">>}

WellFormedMaps ==
  {[kind |-> "wellformed",
    line |-> "X-TIMESTAMP-MAP=" \o k[1] \o ":" \o l[1] \o "," \o k[2] \o ":" \o t[1],
    local |-> l[2], mpegTS |-> t[2]] :
     l \in MapLocals, t \in MapTicks, k \in MapKeys}

\* A map with the MPEGTS part alone.
TicksOnlyMaps ==
  {[kind |-> "mpegts", line |-> "X-TIMESTAMP-MAP=" \o k[2] \o ":" \o t[1],
    local |-> 0, mpegTS |-> t[2]] : t \in MapTicks, k \in MapKeys}

MalformedMaps ==
  {[kind |-> "malformed", line |-> x, local |-> 0, mpegTS |-> 0] :
     x \in {"X-TIMESTAMP-MAP", "X-TIMESTAMP-MAP=LOCAL", "X-TIMESTAMP-MAP=MPEGTS:abc",
            "X-TIMESTAMP-MAP=LOCAL:xx:yy.zzz,MPEGTS:900000"}}

InitMap ==
  \E map \in WellFormedMaps \cup TicksOnlyMaps \cup MalformedMaps,
     cue \in {"Hi", "Hello World"} :
    /\ subs = PlainSubs(<<>>)
    /\ other = PlainSubs(<<>>)
    /\ last = [op |-> "init", args |-> <<map, cue>>, pre |-> PlainSubs(<<>>)]
    /\ prev = last
    /\ steps = 0
    /\ limit = 2
    /\ data = join(<<"WEBVTT", map.line, "", "00:00:01.000 --> 00:00:02.000", cue>>, "\n")
    /\ time = 0
    /\ thrown = Undefined
    /\ loop = Undefined
    /\ scanner = Undefined

NextMap ==
  \/ last.op = "init" /\ DoReadFromWebVTT
  \/ last.op = "readFromWebVTT" /\ DoWriteToWebVTT

SpecMap == InitMap /\ [][NextMap]_vars

\* The metadata with the timestamp map of the record.
MapMetadata(map) ==
  Ref([webvttTimestampMap |-> Ref(WebVTTTimestampMap(map.local, map.mpegTS))])

\* C29: for a line X-TIMESTAMP-MAP=LOCAL:<HH:MM:SS.mmm>,MPEGTS:<n> after the
\* header, keys in any letter case, readFromWebVTT sets the timestamp map of
\* the metadata to local = the duration in milliseconds and mpegTS = n, and
\* a following writeToWebVTT writes the line with the same values; a
\* malformed map is dropped and the read goes on.
C29_TimestampMapParsed ==
  /\ (last.op = "readFromWebVTT" /\ prev.args[1].kind = "wellformed") =>
       /\ thrown = Undefined
       /\ subs.metadata = MapMetadata(prev.args[1])
  /\ (last.op = "writeToWebVTT" /\ last.pre.metadata # Undefined) =>
       /\ thrown = Undefined
       /\ startsWith(data, "WEBVTT\n"
            \o formatWebVTTTimestampMap(last.pre.metadata[1].webvttTimestampMap[1].local,
                                        last.pre.metadata[1].webvttTimestampMap[1].mpegTS)
            \o "\n\n")
  /\ (last.op = "readFromWebVTT" /\ prev.args[1].kind = "malformed") =>
       /\ thrown = Undefined
       /\ subs.metadata = Undefined
       /\ Len(subs.items) = 1

\* C29 without the part on well-formed lines: a malformed map is dropped
\* and the cue after it is read; a map with the MPEGTS part alone is read
\* with local = 0 and written back with the same values.
C29_MalformedDroppedTicksKept ==
  /\ (last.op = "readFromWebVTT" /\ prev.args[1].kind = "malformed") =>
       /\ thrown = Undefined
       /\ subs.metadata = Undefined
       /\ Len(subs.items) = 1
       /\ lineToString(subs.items[1].lines[1]) = prev.args[2]
  /\ (last.op = "readFromWebVTT" /\ prev.args[1].kind = "mpegts") =>
       /\ thrown = Undefined
       /\ subs.metadata = MapMetadata(prev.args[1])
  /\ (last.op = "writeToWebVTT" /\ last.pre.metadata # Undefined) =>
       /\ thrown = Undefined
       /\ startsWith(data, "WEBVTT\n"
            \o formatWebVTTTimestampMap(last.pre.metadata[1].webvttTimestampMap[1].local,
                                        last.pre.metadata[1].webvttTimestampMap[1].mpegTS)
            \o "\n\n")

\* The read of a text with a well-formed map line leaves no metadata.
C29_WellFormedMapDropped ==
  (last.op = "readFromWebVTT" /\ prev.args[1].kind = "wellformed") =>
    /\ thrown = Undefined
    /\ subs.metadata = Undefined
    /\ Len(subs.items) = 1

(***************************************************************************)
(* Scanner (utils/scanner.ts).  A value of type string | null is           *)
(* Undefined for null and Ref(line) for a line, so that an empty line      *)
(* differs from the end sentinel.  A method that writes a field returns    *)
(* the record of the instance after the call and the value returned.       *)
(***************************************************************************)
Scanner(content) == [lines |-> splitLines(content), currentIndex |-> 0]

hasNext(this) == this.currentIndex < Len(this.lines)

peek(this) ==
  IF ~hasNext(this) THEN Undefined ELSE Ref(this.lines[this.currentIndex + 1])

\* A variant of next that returns the line without consuming it.
nextWithoutConsuming(this) == [scanner |-> this, returned |-> peek(this)]

next(this) ==
  IF ~hasNext(this) THEN [scanner |-> this, returned |-> Undefined]
  ELSE [scanner |-> [this EXCEPT !.currentIndex = @ + 1],
        returned |-> Ref(this.lines[this.currentIndex + 1])]

remainingLines(this) ==
  [scanner |-> [this EXCEPT !.currentIndex = Len(this.lines)],
   returned |-> SubSeq(this.lines, this.currentIndex + 1, Len(this.lines))]

reset(this) == [this EXCEPT !.currentIndex = 0]

lineNumber(this) == this.currentIndex + 1

ScannerMethods == {"hasNext", "next", "peek", "remainingLines", "reset", "lineNumber"}

\* The instance after a call of the method and the value the call returns.
ScannerCall(this, method) ==
  CASE method = "hasNext" -> [scanner |-> this, returned |-> hasNext(this)]
    [] method = "next" -> next(this)
    [] method = "peek" -> [scanner |-> this, returned |-> peek(this)]
    [] method = "remainingLines" -> remainingLines(this)
    [] method = "reset" -> [scanner |-> reset(this), returned |-> Undefined]
    [] method = "lineNumber" -> [scanner |-> this, returned |-> lineNumber(this)]

\* A call of a method of the scanner; last keeps the value returned and the
\* instance before the call.
DoScannerCall(method) ==
  /\ steps < limit /\ scanner # Undefined
  /\ scanner' = Ref(ScannerCall(scanner[1], method).scanner)
  /\ last' = [op |-> method, args |-> <<ScannerCall(scanner[1], method).returned>>,
              pre |-> scanner[1]]
  /\ prev' = last
  /\ steps' = steps + 1
  /\ UNCHANGED <<subs, other, limit, data, time, thrown, loop>>

(***************************************************************************)
(* SpecScanner: up to MaxScannerCalls calls, in any order, on a Scanner    *)
(* constructed on a text of 0 to 3 lines.                                  *)
(***************************************************************************)
MaxScannerCalls == 3

ScannerTexts == {"", "a", "a\nb", "a\n\nb", "a\r\nb\n", "x\ny\rz", "\n\n"}

InitScanner ==
  \E t \in ScannerTexts :
    /\ subs = PlainSubs(<<>>)
    /\ other = PlainSubs(<<>>)
    /\ last = [op |-> "init", args |-> <<t>>, pre |-> Scanner(t)]
    /\ prev = last
    /\ steps = 0
    /\ limit = MaxScannerCalls
    /\ data = t
    /\ time = 0
    /\ thrown = Undefined
    /\ loop = Undefined
    /\ scanner = Ref(Scanner(t))

NextScanner == \E method \in ScannerMethods : DoScannerCall(method)

SpecScanner == InitScanner /\ [][NextScanner]_vars

\* The number of lines consumed, before the last call and after it.
ConsumedBefore == last.pre.currentIndex
Consumed == scanner[1].currentIndex
LineCount == Len(splitLines(data))

\* C30: over a text of n lines and under any sequence of calls, with p the
\* number of consumed lines: 0 <= p <= n; the lines are those of the text;
\* hasNext returns p < n; peek returns what next would return and leaves p;
\* next returns line p and adds one to p when p < n, and returns the end
\* sentinel and leaves p = n otherwise; remainingLines returns the lines
\* p..n-1 in order and sets p = n; reset sets p = 0; lineNumber returns p + 1.
C30_ScannerStateMachine ==
  /\ 0 <= Consumed /\ Consumed <= LineCount
  /\ scanner[1].lines = splitLines(data)
  /\ last.op = "hasNext" =>
       /\ last.args[1] = (ConsumedBefore < LineCount)
       /\ Consumed = ConsumedBefore
  /\ last.op = "peek" =>
       /\ last.args[1] = next(last.pre).returned
       /\ Consumed = ConsumedBefore
  /\ last.op = "next" =>
       IF ConsumedBefore < LineCount
       THEN /\ last.args[1] = Ref(splitLines(data)[ConsumedBefore + 1])
            /\ Consumed = ConsumedBefore + 1
       ELSE /\ last.args[1] = Undefined
            /\ ConsumedBefore = LineCount
            /\ Consumed = LineCount
  /\ last.op = "remainingLines" =>
       /\ last.args[1] = [i \in 1..(LineCount - ConsumedBefore) |->
                            splitLines(data)[ConsumedBefore + i]]
       /\ Consumed = LineCount
  /\ last.op = "reset" => Consumed = 0
  /\ last.op = "lineNumber" =>
       /\ last.args[1] = ConsumedBefore + 1
       /\ Consumed = ConsumedBefore

\* The second call of next returned the empty second line of a three-line
\* text after a peek had shown it.
C30_Witness ==
  /\ steps = 3
  /\ LineCount = 3
  /\ last.op = "next" /\ last.args[1] = Ref("")
  /\ prev.op = "peek" /\ prev.args[1] = Ref("")
  /\ Consumed = 2

\* next returned the end sentinel after remainingLines had consumed two
\* lines.
C30_WitnessEnd ==
  /\ last.op = "next" /\ last.args[1] = Undefined
  /\ prev.op = "remainingLines" /\ Len(prev.args[1]) = 2
  /\ Consumed = LineCount

====
